---- MODULE Spec2Model ----
(***************************************************************************)
(* A model of the deduplication store (HFEventStore.py), the pagination    *)
(* engine (HFPaginator.py), the TTL cache (HFCache.py), the polling        *)
(* watcher (HFWatcher.py) and the rate-limit state of the HTTP client      *)
(* (HFClient.py) of HF-API-Python-Demon.                                   *)
(*                                                                         *)
(* SpecStore   threads calling one shared HFEventStore, every SQL          *)
(*             statement and commit a step of its own, with process        *)
(*             crashes and close/reopen of the database file.              *)
(* SpecRace    three callers, one call each, on a store without deletes.   *)
(* SpecPag     one call of HFPaginator._paginate.                          *)
(* SpecCache   one caller of an HFCache, time passing between the steps.   *)
(* SpecCacheRace  two callers of one HFCache, one call each.               *)
(* SpecThread, SpecForum, SpecUser   one watch job of an HFWatcher, its    *)
(*             poll iterations a step per await, with process restarts.    *)
(* SpecKeyword, SpecBytes   one keyword or bytes watch job.                *)
(* SpecLoops   HFWatcher.start(), the loops of its jobs and stop();        *)
(*             SpecLoopsFair adds that every task gets to run.             *)
(* SpecClient  callers of HFClient._raw_post sharing the per-token         *)
(*             rate-limit state, time passing between the steps.           *)
(***************************************************************************)
EXTENDS Integers, Sequences, FiniteSets, TLC

VARIABLES
  conn,     \* rows as the open sqlite3 connection sees them (with its pending writes)
  db,       \* rows committed to the database file (what a new connection reads)
  isOpen,   \* FALSE once close() has closed the connection
  lock,     \* self._lock: the thread holding it, or 0
  clock,    \* int(time.time())
  thr,      \* per thread: its call, the call's position, locals and return value
  ops,      \* number of calls made so far (bounded by MaxOps)
  hist,     \* history of add_if_new results per (namespace, key, event_id)
  pag,      \* one _paginate call: its arguments, page, all_items and position
  pagLog,   \* what that call did: pages asked for, pages received, sleeps
  cache,    \* one HFCache: _store (in dict order), _maxsize, _default_ttl, _hits, _misses
  clk,      \* the cache's self._lock: the thread holding it, or 0
  mono,     \* time.monotonic()
  cthr,     \* per caller of the cache: its call, position, locals and return value
  cops,     \* number of cache calls made so far (bounded by MaxCacheOps)
  w,        \* one watch job: its dataclass fields (_seen_tids, _last_post, ...)
  poll,     \* the job's loop: its position in the poll iteration and the locals
  wlog,     \* what the job's callback was called with, in this process and ever
  wn,       \* number of poll iterations and of process restarts so far
  sup,      \* the HFWatcher: _running, whether on_error is set, where start() is
  loops,    \* per job: where its loop task is, and what its iteration did
  net,      \* _rate_limited_until per token, time.time(), and the HTTP calls made
  reqs      \* per caller of _raw_post: its token, position and return value

storeVars == <<conn, db, isOpen, lock, clock, thr, ops, hist>>
pagVars   == <<pag, pagLog>>
cacheVars == <<cache, clk, mono, cthr, cops>>
watchVars == <<w, poll, wlog, wn>>
loopVars  == <<sup, loops>>
clientVars == <<net, reqs>>

vars == <<storeVars, pagVars, cacheVars, watchVars, loopVars, clientVars>>

\* what the steps of each component leave alone
notStore == <<pagVars, cacheVars, watchVars, loopVars, clientVars>>
notPag   == <<storeVars, cacheVars, watchVars, loopVars, clientVars>>
notCache == <<storeVars, pagVars, watchVars, loopVars, clientVars>>
notWatch == <<storeVars, pagVars, cacheVars, loopVars, clientVars>>
notLoop  == <<storeVars, pagVars, cacheVars, watchVars, clientVars>>
notClient == <<storeVars, pagVars, cacheVars, watchVars, loopVars>>

---------------------------------------------------------------------------
(* Bounds of the model *)

MaxOps   == 2      \* calls made in one behaviour of SpecStore (close() not counted)
MaxTicks == 1      \* times the clock advances
MaxLen   == 2      \* length of an event_ids list
MaxPages == 4      \* largest max_pages passed to _paginate
MaxCacheOps == 3   \* calls made in one behaviour of SpecCache
MaxMono  == 2      \* times time.monotonic() advances
MaxPolls == 3      \* poll iterations of the watch job in one behaviour
MaxRestarts == 1   \* restarts of the watcher's process
MaxId    == 3      \* largest tid or pid the API returns
MaxTime  == 2      \* largest dateline or lastpost the API returns
MaxRows  == 2      \* most records in one API response
MaxUserRows == 1   \* most records in one response to a user watch
MaxFids  == 1      \* most forums a keyword watch is registered with
MaxUid   == 2      \* largest uid the API returns for the own account
NumJobs  == 2      \* jobs registered with the watcher of SpecLoops
MaxIters == 2      \* poll iterations one loop starts in SpecLoops
NumRequesters == 2 \* concurrent callers of _raw_post
MaxCalls == 3      \* calls of _raw_post in one behaviour of SpecClient
MaxWallTicks == 3  \* times time.time() advances in SpecClient
TickStep == 300    \* seconds by which it advances
MaxPosts == 1      \* most posts in one response to a keyword watch's posts fetch
ThreadCap  == 2    \* the 500 of _poll_thread's seen-set bound, scaled down
ThreadKeep == 1    \* the 250 it is cut to
ForumCap   == 2    \* the 1000 of _poll_forum's seen-set bound, scaled down
ForumKeep  == 1    \* the 500 it is cut to
UserCap    == 2    \* the 500 of _poll_user's seen-set bounds, scaled down
UserKeep   == 1    \* the 250 they are cut to
KeywordCap  == 2   \* the 2000 of _poll_keyword's seen-set bounds, scaled down
KeywordKeep == 1   \* the 1000 they are cut to
BytesCap == 2      \* a cap for the seen transaction ids of a bytes watch: the code has none

---------------------------------------------------------------------------
(* Python values that reach the store: None, str and int *)

PyNone   == [t |-> "none", i |-> 0, s |-> ""]
PyStr(x) == [t |-> "str",  i |-> 0, s |-> x]
PyInt(n) == [t |-> "int",  i |-> n, s |-> ""]

\* str(n) of a small non-negative int
IntToStr(n) ==
  CASE n = 0 -> "0" [] n = 1 -> "1" [] n = 2 -> "2" [] n = 3 -> "3" [] n = 4 -> "4"
    [] n = 5 -> "5" [] n = 6 -> "6" [] n = 7 -> "7" [] n = 8 -> "8" [] n = 9 -> "9"

\* str(x): a str is itself, an int is its decimal digits
Str(x) == IF x.t = "int" THEN IntToStr(x.i) ELSE IF x.t = "str" THEN x.s ELSE "None"

\* bool(x), as in `if namespace and key`
Truthy(x) == (x.t = "str" /\ x.s # "") \/ (x.t = "int" /\ x.i # 0)

SECONDS_PER_DAY == 86400

---------------------------------------------------------------------------
(* The events table and the SQL statements the store runs on it *)

Namespaces == {"n1", "n2"}
KeyStrs    == {"", "k1"}
IdStrs     == {"1", "2"}
PyKeys     == {PyStr(k) : k \in KeyStrs}
PyIds      == {PyInt(1), PyStr("1"), PyInt(2)}
PyNames    == {PyStr(n) : n \in Namespaces}
Triples    == Namespaces \X KeyStrs \X IdStrs

\* the (namespace, key) pairs the callers use
Scopes     == {<<PyStr("n1"), PyStr("k1")>>, <<PyStr("n2"), PyStr("")>>}

StartTime  == 19000 * SECONDS_PER_DAY

\* events(namespace, key, event_id, seen_at), PRIMARY KEY (namespace, key, event_id)
Row(ns, k, e, at) == [namespace |-> ns, key |-> k, event_id |-> e, seen_at |-> at]

PK(r) == <<r.namespace, r.key, r.event_id>>

\* SELECT ... WHERE namespace=? AND key=? AND event_id=?
Find(rows, ns, k, e) == {r \in rows : r.namespace = ns /\ r.key = k /\ r.event_id = e}

\* SELECT ... WHERE namespace=? AND key=?
ScopeRows(rows, ns, k) == {r \in rows : r.namespace = ns /\ r.key = k}

\* (mutation) INSERT OR REPLACE: the row of that primary key is overwritten
InsertOrReplace(rows, r) == (rows \ Find(rows, r.namespace, r.key, r.event_id)) \cup {r}

\* INSERT OR IGNORE INTO events VALUES (?,?,?,?)
InsertOrIgnore(rows, r) ==
  IF Find(rows, r.namespace, r.key, r.event_id) # {} THEN rows ELSE rows \cup {r}

\* executemany(INSERT OR IGNORE ...): the rows after the whole batch
RECURSIVE ExecuteMany(_, _)
ExecuteMany(rows, batch) ==
  IF batch = <<>> THEN rows
  ELSE ExecuteMany(InsertOrIgnore(rows, Head(batch)), Tail(batch))

\* (mutation) the number of ids passed, not the number inserted
RowCountAll(rows, batch) == Len(batch)

\* cur.rowcount of that executemany: the changes of every statement, summed
RECURSIVE RowCountMany(_, _)
RowCountMany(rows, batch) ==
  IF batch = <<>> THEN 0
  ELSE (IF Find(rows, Head(batch).namespace, Head(batch).key, Head(batch).event_id) = {}
        THEN 1 ELSE 0)
       + RowCountMany(InsertOrIgnore(rows, Head(batch)), Tail(batch))

\* (mutation) ORDER BY seen_at DESC
NewestFirst(rows, ns, k, n) ==
  LET scope == {r \in rows : r.namespace = ns /\ r.key = k}
      m     == IF n < 0 \/ n > Cardinality(scope) THEN Cardinality(scope) ELSE n
  IN {S \in SUBSET scope :
        /\ Cardinality(S) = m
        /\ \A d \in S : \A r \in scope \ S : d.seen_at >= r.seen_at}

\* SELECT rowid ... WHERE namespace=? AND key=? ORDER BY seen_at ASC LIMIT n:
\* every set of n rows of the scope that an ascending order can put first
\* (SQL leaves the order of rows with equal seen_at open)
OldestFirst(rows, ns, k, n) ==
  LET scope == ScopeRows(rows, ns, k)
      m     == IF n < 0 \/ n > Cardinality(scope) THEN Cardinality(scope) ELSE n
  IN {S \in SUBSET scope :
        /\ Cardinality(S) = m
        /\ \A d \in S : \A r \in scope \ S : d.seen_at <= r.seen_at}

\* (mutation) WHERE seen_at <= ?
DeleteOlderOrEqual(rows, cutoff) == {r \in rows : ~(r.seen_at <= cutoff)}

\* DELETE FROM events WHERE seen_at < ?
DeleteOlder(rows, cutoff) == {r \in rows : ~(r.seen_at < cutoff)}

\* the three DELETE statements of clear()
DeleteScoped(rows, ns, key) ==
  IF Truthy(ns) /\ Truthy(key)
    THEN {r \in rows : ~(r.namespace = ns.s /\ r.key = Str(key))}
  ELSE IF Truthy(ns)
    THEN {r \in rows : r.namespace # ns.s}
  ELSE {}

\* (mutation) the schema is created afresh at every open, dropping the table
InitSchemaFresh(file) == {}

\* CREATE TABLE IF NOT EXISTS / CREATE INDEX IF NOT EXISTS on an existing file
InitSchema(file) == file

---------------------------------------------------------------------------
(* Calls, their return values and the per-thread position in a call *)

Workers    == {1}
Racers     == {1, 2, 3}
AllThreads == Workers \cup Racers

Keeps      == {0, 1, 2}     \* keep arguments of prune
DaysArgs   == {0, 1}        \* days arguments of purge_old

\* what a call returned: None, a bool, an int, a list, or a raised exception
RetNone     == [k |-> "none",  b |-> FALSE, n |-> 0, l |-> <<>>, x |-> ""]
RetBool(v)  == [k |-> "bool",  b |-> v,     n |-> 0, l |-> <<>>, x |-> ""]
RetInt(v)   == [k |-> "int",   b |-> FALSE, n |-> v, l |-> <<>>, x |-> ""]
RetList(v)  == [k |-> "list",  b |-> FALSE, n |-> 0, l |-> v,    x |-> ""]
RetRaise(v) == [k |-> "raise", b |-> FALSE, n |-> 0, l |-> <<>>, x |-> v]

Idle == [pc |-> "idle", op |-> "none", ns |-> PyNone, key |-> PyNone, eid |-> PyNone,
         ids |-> <<>>, num |-> 0, now |-> 0, ret |-> RetNone]

\* a call that has just been made: filter_new, add_many and purge_old have code
\* before their with-block, the others start at it
Entering(op, ns, key, eid, ids, num, now) ==
  [pc |-> IF op \in {"filter_new", "add_many", "purge_old"} THEN "entry" ELSE "lock",
   op |-> op, ns |-> ns, key |-> key, eid |-> eid,
   ids |-> ids, num |-> num, now |-> now, ret |-> RetNone]

\* the (namespace, str(key), str(event_id)) a single-id call binds to its statement
Bound(c) == <<c.ns.s, Str(c.key), Str(c.eid)>>

Lists == UNION {[1..n -> PyIds] : n \in 0..MaxLen}

CanCall(t) == thr[t].pc = "idle" /\ ops < MaxOps

\* (mutation) no lock: a caller never waits
NeverLocked == TRUE

\* the lock can be taken
LockFree == lock = 0

\* per (namespace, key, event_id): the answers add_if_new gave ("T", "F") and the
\* restarts of the process between them ("R"), and whether add or add_many put it in
NoHist == [log |-> <<>>, seeded |-> FALSE]

\* the history starts again at a prune, purge_old or clear: rows that are still
\* there count as seeded
Restarted(rows) ==
  [tr \in Triples |->
     [NoHist EXCEPT !.seeded = Find(rows, tr[1], tr[2], tr[3]) # {}]]

\* an add or add_many that committed new rows seeded them
Seeded(h, new) ==
  [tr \in Triples |->
     IF \E r \in new : PK(r) = tr THEN [h[tr] EXCEPT !.seeded = TRUE] ELSE h[tr]]

\* an add_if_new call on tr returned v
Answered(h, tr, v) ==
  [h EXCEPT ![tr].log = Append(@, IF v THEN "T" ELSE "F")]

\* the process was restarted (noted once between two answers)
Rerun(h) ==
  [tr \in Triples |->
     IF h[tr].log # <<>> /\ h[tr].log[Len(h[tr].log)] # "R"
       THEN [h[tr] EXCEPT !.log = Append(@, "R")] ELSE h[tr]]

---------------------------------------------------------------------------
(* HFWatcher: a watch job and its loop, before the first poll *)

\* the dataclass fields of a job after registration (those of the other kinds
\* of job stay at these values)
NewWatch(kind, mode) ==
  [kind |-> kind, mode |-> mode, last_post |-> 0, seen_tids |-> {}, seen_pids |-> {},
   initialized |-> FALSE]

\* the loop between two iterations: no locals
Sleeping ==
  [pc |-> "sleep", rows |-> <<>>, lastpost |-> 0, last_page |-> 0,
   got |-> FALSE, resp |-> <<>>, ev |-> <<>>, seen0 |-> {}, base0 |-> 0, init0 |-> FALSE,
   first |-> ""]

\* nothing emitted, nothing fetched
NoEvents ==
  [once |-> {}, notified |-> {}, cold |-> {}, seeded |-> FALSE,
   firstT |-> {}, gotT |-> FALSE, firstP |-> {}, gotP |-> FALSE, failed |-> {}]

\* no watch job
WatchOff ==
  /\ w = NewWatch("", "")
  /\ poll = Sleeping
  /\ wlog = NoEvents
  /\ wn = [polls |-> 0, restarts |-> 0]

---------------------------------------------------------------------------
(* HFWatcher.start and HFClient: before anything runs *)

\* the jobs registered with the watcher, by position, and the kind each loop
\* tags its errors with
Jobs == 1..NumJobs
KindOf(j) == IF j = 1 THEN "thread" ELSE IF j = 2 THEN "forum" ELSE "bytes"

\* a loop task that start() has not created yet
NoTask == [pc |-> "new", n |-> 0, err |-> FALSE, tag |-> ""]

\* an HFWatcher after __init__: _running is False
NewWatcher(sink) == [running |-> FALSE, sink |-> sink, start |-> "idle", stopped |-> FALSE]

\* no watcher
LoopOff ==
  /\ sup = NewWatcher(FALSE)
  /\ loops = [j \in Jobs |-> NoTask]

\* the tokens requests are made with, and the callers of _raw_post
Tokens     == {"t1", "t2"}
Requesters == 1..NumRequesters

\* a caller that is not in _raw_post
NoRequest == [pc |-> "idle", token |-> "", issued |-> FALSE, ret |-> ""]

\* the module after import: _rate_limited_until = {}
NoLimits ==
  [until |-> [k \in Tokens |-> 0], now |-> TickStep, marks |-> {}, posts |-> 0,
   skipped |-> 0, calls |-> 0]

\* no client
ClientOff ==
  /\ net = NoLimits
  /\ reqs = [r \in Requesters |-> NoRequest]

---------------------------------------------------------------------------
(* HFCache: its values, keys and construction *)

\* _SENTINEL and _NONE_CACHED: two objects, each distinct from every other value
SENTINEL    == [t |-> "object", i |-> 1, s |-> ""]
NONE_CACHED == [t |-> "object", i |-> 2, s |-> ""]

\* keys as callers pass them: an int, the list [n] and the tuple (n,)
PyList(n)  == [t |-> "list",  i |-> n, s |-> ""]
PyTuple(n) == [t |-> "tuple", i |-> n, s |-> ""]

\* _make_hashable(key): a list becomes the tuple of its elements
MakeHashable(key) == IF key.t = "list" THEN PyTuple(key.i) ELSE key

\* the callers of one shared cache
Callers == {1, 2}

\* a caller outside every HFCache method
CIdle == [pc |-> "idle", op |-> "", ns |-> "", key |-> PyNone, val |-> PyNone,
          ttl |-> PyNone, none_ttl |-> 0, set_ttl |-> PyNone, dflt |-> PyNone,
          at |-> 0, inner |-> FALSE, fetched |-> 0, hit |-> FALSE, ret |-> PyNone]

\* HFCache(ttl, maxsize): an empty store, no hits, no misses
HFCacheInit(ttl, maxsize) ==
  [store |-> <<>>, maxsize |-> maxsize, default_ttl |-> ttl, hits |-> 0, misses |-> 0]

\* no cache in use
CacheOff ==
  /\ cache = HFCacheInit(0, 0)
  /\ clk = 0
  /\ mono = 0
  /\ cthr = [t \in Callers |-> CIdle]
  /\ cops = 0

\* the file HFEventStore(path) opens: none yet, or one that earlier runs wrote
InitialFiles ==
  { {},
    { Row("n1", "k1", "1", StartTime - 2 * SECONDS_PER_DAY),
      Row("n1", "k1", "2", StartTime - 1),
      Row("n2", "",   "1", StartTime - 2 * SECONDS_PER_DAY) } }

\* no _paginate call
PagOff == [pc |-> "off", page |-> 0, all_items |-> <<>>, max_pages |-> 0, perpage |-> 0,
           stop |-> "", delay |-> 0]
NoLog  == [asked |-> <<>>, got |-> <<>>, slept |-> {}]

InitStore ==
  /\ pag = PagOff
  /\ pagLog = NoLog
  /\ CacheOff
  /\ WatchOff
  /\ LoopOff
  /\ ClientOff
  /\ db \in InitialFiles
  /\ conn = InitSchema(db)
  /\ isOpen = TRUE
  /\ lock = 0
  /\ clock = StartTime
  /\ thr = [t \in AllThreads |-> Idle]
  /\ ops = 0
  /\ hist = Restarted(db)

---------------------------------------------------------------------------
(* The calls: everything a method does before `with self._lock:` *)

StartHas(t, ns, key, eid) ==
  /\ thr' = [thr EXCEPT ![t] = Entering("has", ns, key, eid, <<>>, 0, 0)]
  /\ ops' = ops + 1
  /\ UNCHANGED <<conn, db, isOpen, lock, clock, hist, notStore>>

StartAdd(t, ns, key, eid) ==
  /\ thr' = [thr EXCEPT ![t] = Entering("add", ns, key, eid, <<>>, 0, 0)]
  /\ ops' = ops + 1
  /\ UNCHANGED <<conn, db, isOpen, lock, clock, hist, notStore>>

StartAddIfNew(t, ns, key, eid) ==
  /\ thr' = [thr EXCEPT ![t] = Entering("add_if_new", ns, key, eid, <<>>, 0, 0)]
  /\ ops' = ops + 1
  /\ UNCHANGED <<conn, db, isOpen, lock, clock, hist, notStore>>

StartFilterNew(t, ns, key, ids) ==
  /\ thr' = [thr EXCEPT ![t] = Entering("filter_new", ns, key, PyNone, ids, 0, 0)]
  /\ ops' = ops + 1
  /\ UNCHANGED <<conn, db, isOpen, lock, clock, hist, notStore>>

StartAddMany(t, ns, key, ids) ==
  /\ thr' = [thr EXCEPT ![t] = Entering("add_many", ns, key, PyNone, ids, 0, 0)]
  /\ ops' = ops + 1
  /\ UNCHANGED <<conn, db, isOpen, lock, clock, hist, notStore>>

StartPrune(t, ns, key, keep) ==
  /\ thr' = [thr EXCEPT ![t] = Entering("prune", ns, key, PyNone, <<>>, keep, 0)]
  /\ ops' = ops + 1
  /\ UNCHANGED <<conn, db, isOpen, lock, clock, hist, notStore>>

StartPurgeOld(t, days) ==
  /\ thr' = [thr EXCEPT ![t] = Entering("purge_old", PyNone, PyNone, PyNone, <<>>, days, 0)]
  /\ ops' = ops + 1
  /\ UNCHANGED <<conn, db, isOpen, lock, clock, hist, notStore>>

StartClear(t, ns, key) ==
  /\ thr' = [thr EXCEPT ![t] = Entering("clear", ns, key, PyNone, <<>>, 0, 0)]
  /\ ops' = ops + 1
  /\ UNCHANGED <<conn, db, isOpen, lock, clock, hist, notStore>>

StartClose(t) ==
  /\ thr' = [thr EXCEPT ![t] = Entering("close", PyNone, PyNone, PyNone, <<>>, 0, 0)]
  /\ UNCHANGED <<conn, db, isOpen, lock, clock, ops, hist, notStore>>

CallHas(t) ==
  CanCall(t) /\ \E sc \in Scopes, eid \in PyIds : StartHas(t, sc[1], sc[2], eid)

CallAdd(t) ==
  CanCall(t) /\ \E sc \in Scopes, eid \in PyIds : StartAdd(t, sc[1], sc[2], eid)

CallAddIfNew(t) ==
  CanCall(t) /\ \E sc \in Scopes, eid \in PyIds : StartAddIfNew(t, sc[1], sc[2], eid)

CallFilterNew(t) ==
  CanCall(t) /\ \E sc \in Scopes, ids \in Lists : StartFilterNew(t, sc[1], sc[2], ids)

CallAddMany(t) ==
  CanCall(t) /\ \E sc \in Scopes, ids \in Lists : StartAddMany(t, sc[1], sc[2], ids)

CallPrune(t) ==
  CanCall(t) /\ \E sc \in Scopes, keep \in Keeps : StartPrune(t, sc[1], sc[2], keep)

CallPurgeOld(t) ==
  CanCall(t) /\ \E days \in DaysArgs : StartPurgeOld(t, days)

CallClear(t) ==
  CanCall(t) /\ \E ns \in PyNames \cup {PyNone}, key \in PyKeys \cup {PyNone} : StartClear(t, ns, key)

CallClose(t) ==
  thr[t].pc = "idle" /\ isOpen /\ StartClose(t)

---------------------------------------------------------------------------
(* Inside `with self._lock:`: one step per SQL statement, one per commit *)

\* a call that is past its with-block and about to return v (or raise it)
Return(t, v) == [thr[t] EXCEPT !.pc = "ret", !.ret = v]

\* cutoff = int(time.time()) - (days * 86400)
Cutoff(now, days) == now - days * SECONDS_PER_DAY

\* what a method does before `with self._lock:`
\*   filter_new  `if not event_ids: return []`
\*   add_many    `if not event_ids: return 0`, then now = int(time.time())
\*   purge_old   the cutoff
Enter(t) ==
  LET c == thr[t] IN
  /\ c.pc = "entry"
  /\ thr' = [thr EXCEPT ![t] =
       CASE c.op = "filter_new" /\ c.ids = <<>> -> Return(t, RetList(<<>>))
         [] c.op = "add_many" /\ c.ids = <<>>   -> Return(t, RetInt(0))
         [] c.op = "add_many" /\ c.ids # <<>>   -> [c EXCEPT !.pc = "lock", !.now = clock]
         [] c.op = "purge_old" -> [c EXCEPT !.pc = "lock", !.now = Cutoff(clock, c.num)]
         [] c.op = "filter_new" /\ c.ids # <<>> -> [c EXCEPT !.pc = "lock"]]
  /\ UNCHANGED <<conn, db, isOpen, lock, clock, ops, hist, notStore>>

\* return, or the exception leaving the method: the frame is gone
Leave(t) ==
  /\ thr[t].pc = "ret"
  /\ thr' = [thr EXCEPT ![t] = Idle]
  /\ UNCHANGED <<conn, db, isOpen, lock, clock, ops, hist, notStore>>

\* with self._lock:
Acquire(t) ==
  /\ thr[t].pc = "lock"
  /\ LockFree
  /\ lock' = t
  /\ thr' = [thr EXCEPT ![t].pc = "exec"]
  /\ UNCHANGED <<conn, db, isOpen, clock, ops, hist, notStore>>

\* any statement on a closed connection raises sqlite3.ProgrammingError
RaiseClosed(t) ==
  /\ thr[t].pc = "exec"
  /\ thr[t].op # "close"
  /\ ~isOpen
  /\ thr' = [thr EXCEPT ![t] = Return(t, RetRaise("ProgrammingError"))]
  /\ lock' = 0
  /\ UNCHANGED <<conn, db, isOpen, clock, ops, hist, notStore>>

\* has(): SELECT 1 ... WHERE namespace=? AND key=? AND event_id=? LIMIT 1; row is not None
HasRow(rows, ns, key, eid) == Find(rows, ns.s, Str(key), Str(eid)) # {}

ExecHas(t) ==
  LET c == thr[t] IN
  /\ c.pc = "exec" /\ c.op = "has" /\ isOpen
  /\ thr' = [thr EXCEPT ![t] = Return(t, RetBool(HasRow(conn, c.ns, c.key, c.eid)))]
  /\ lock' = 0
  /\ UNCHANGED <<conn, db, isOpen, clock, ops, hist, notStore>>

ExecAdd(t) ==
  LET c == thr[t] IN
  /\ c.pc = "exec" /\ c.op = "add" /\ isOpen
  /\ conn' = InsertOrIgnore(conn, Row(c.ns.s, Str(c.key), Str(c.eid), clock))
  /\ thr' = [thr EXCEPT ![t].pc = "commit"]
  /\ UNCHANGED <<db, isOpen, lock, clock, ops, hist, notStore>>

\* the SELECT of add_if_new, and `if cur.fetchone(): return False`
SelectAddIfNew(t) ==
  LET c == thr[t] IN
  /\ c.pc = "exec" /\ c.op = "add_if_new" /\ isOpen
  /\ IF Find(conn, c.ns.s, Str(c.key), Str(c.eid)) # {}
       THEN /\ thr' = [thr EXCEPT ![t] = Return(t, RetBool(FALSE))]
            /\ lock' = 0
            /\ hist' = Answered(hist, Bound(c), FALSE)
       ELSE /\ thr' = [thr EXCEPT ![t].pc = "insert"]
            /\ UNCHANGED <<lock, hist>>
  /\ UNCHANGED <<conn, db, isOpen, clock, ops, notStore>>

\* the plain INSERT of add_if_new: a row with that primary key makes it raise
InsertAddIfNew(t) ==
  LET c == thr[t] IN
  /\ c.pc = "insert"
  /\ IF Find(conn, c.ns.s, Str(c.key), Str(c.eid)) # {}
       THEN /\ thr' = [thr EXCEPT ![t] = Return(t, RetRaise("IntegrityError"))]
            /\ lock' = 0
            /\ UNCHANGED conn
       ELSE /\ conn' = conn \cup {Row(c.ns.s, Str(c.key), Str(c.eid), clock)}
            /\ thr' = [thr EXCEPT ![t].pc = "commit", ![t].ret = RetBool(TRUE)]
            /\ UNCHANGED lock
  /\ UNCHANGED <<db, isOpen, clock, ops, hist, notStore>>

\* (mutation) the SELECT of filter_new without its namespace and key conditions
NotSeenAnywhere(rows, ns, k, ids) ==
  LET seen == {r.event_id : r \in {x \in rows : \E i \in 1..Len(ids) : x.event_id = Str(ids[i])}}
  IN SelectSeq(ids, LAMBDA e : Str(e) \notin seen)

\* SELECT event_id ... WHERE namespace=? AND key=? AND event_id IN (...);
\* seen = {row[0] for row in rows}; [e for e in event_ids if str(e) not in seen]
NotSeen(rows, ns, k, ids) ==
  LET seen == {r.event_id : r \in {x \in ScopeRows(rows, ns, k) :
                                     \E i \in 1..Len(ids) : x.event_id = Str(ids[i])}}
  IN SelectSeq(ids, LAMBDA e : Str(e) \notin seen)

ExecFilterNew(t) ==
  LET c == thr[t] IN
  /\ c.pc = "exec" /\ c.op = "filter_new" /\ isOpen
  /\ thr' = [thr EXCEPT ![t] = Return(t, RetList(NotSeen(conn, c.ns.s, Str(c.key), c.ids)))]
  /\ lock' = 0
  /\ UNCHANGED <<conn, db, isOpen, clock, ops, hist, notStore>>

\* rows = [(namespace, str(key), str(eid), now) for eid in event_ids]
BatchRows(c) == [i \in 1..Len(c.ids) |-> Row(c.ns.s, Str(c.key), Str(c.ids[i]), c.now)]

ExecAddMany(t) ==
  LET c == thr[t] IN
  /\ c.pc = "exec" /\ c.op = "add_many" /\ isOpen
  /\ conn' = ExecuteMany(conn, BatchRows(c))
  /\ thr' = [thr EXCEPT ![t].pc = "commit",
                        ![t].ret = RetInt(RowCountMany(conn, BatchRows(c)))]
  /\ UNCHANGED <<db, isOpen, lock, clock, ops, hist, notStore>>

\* COUNT(*), `if total <= keep: return 0`, then the DELETE of the oldest rows
ExecPrune(t) ==
  LET c     == thr[t]
      total == Cardinality(ScopeRows(conn, c.ns.s, Str(c.key)))
  IN
  /\ c.pc = "exec" /\ c.op = "prune" /\ isOpen
  /\ IF total <= c.num
       THEN /\ thr' = [thr EXCEPT ![t] = Return(t, RetInt(0))]
            /\ lock' = 0
            /\ hist' = Restarted(conn)
            /\ UNCHANGED conn
       ELSE \E gone \in OldestFirst(conn, c.ns.s, Str(c.key), total - c.num) :
            /\ conn' = conn \ gone
            /\ thr' = [thr EXCEPT ![t].pc = "commit", ![t].ret = RetInt(Cardinality(gone))]
            /\ UNCHANGED <<lock, hist>>
  /\ UNCHANGED <<db, isOpen, clock, ops, notStore>>

ExecPurgeOld(t) ==
  LET c == thr[t] IN
  /\ c.pc = "exec" /\ c.op = "purge_old" /\ isOpen
  /\ conn' = DeleteOlder(conn, c.now)
  /\ thr' = [thr EXCEPT ![t].pc = "commit",
                        ![t].ret = RetInt(Cardinality(conn \ DeleteOlder(conn, c.now)))]
  /\ UNCHANGED <<db, isOpen, lock, clock, ops, hist, notStore>>

ExecClear(t) ==
  LET c == thr[t] IN
  /\ c.pc = "exec" /\ c.op = "clear" /\ isOpen
  /\ conn' = DeleteScoped(conn, c.ns, c.key)
  /\ thr' = [thr EXCEPT ![t].pc = "commit",
                        ![t].ret = RetInt(Cardinality(conn \ DeleteScoped(conn, c.ns, c.key)))]
  /\ UNCHANGED <<db, isOpen, lock, clock, ops, hist, notStore>>

\* self._conn.close()
ExecClose(t) ==
  /\ thr[t].pc = "exec" /\ thr[t].op = "close"
  /\ isOpen' = FALSE
  /\ thr' = [thr EXCEPT ![t] = Return(t, RetNone)]
  /\ lock' = 0
  /\ UNCHANGED <<conn, db, clock, ops, hist, notStore>>

\* (mutation) the commit is missing: the file stays as it was
NotCommitted(pending, file) == file

\* what self._conn.commit() writes to the database file
Committed(pending, file) == pending

\* self._conn.commit() and the end of the with-block
Commit(t) ==
  LET c == thr[t] IN
  /\ c.pc = "commit"
  /\ db' = Committed(conn, db)
  /\ lock' = 0
  /\ thr' = [thr EXCEPT ![t] = Return(t, c.ret)]
  /\ hist' = CASE c.op = "add_if_new" -> Answered(hist, Bound(c), TRUE)
               [] c.op \in {"add", "add_many"} -> Seeded(hist, conn \ db)
               [] OTHER -> Restarted(conn)
  /\ UNCHANGED <<conn, isOpen, clock, ops, notStore>>

\* time passes, a day at a time
Tick ==
  /\ clock < StartTime + MaxTicks * SECONDS_PER_DAY
  /\ clock' = clock + SECONDS_PER_DAY
  /\ UNCHANGED <<conn, db, isOpen, lock, thr, ops, hist, notStore>>

\* the process dies and a new one opens the same file: every call in progress
\* is gone, and with it whatever the connection had not committed
Crash ==
  /\ conn' = InitSchema(db)
  /\ isOpen' = TRUE
  /\ lock' = 0
  /\ thr' = [t \in AllThreads |-> Idle]
  /\ hist' = Rerun(hist)
  /\ UNCHANGED <<db, clock, ops, notStore>>

\* HFEventStore(path) again, after close()
Reopen ==
  /\ ~isOpen
  /\ \A t \in AllThreads : thr[t].pc = "idle"
  /\ conn' = InitSchema(db)
  /\ isOpen' = TRUE
  /\ lock' = 0
  /\ hist' = Rerun(hist)
  /\ UNCHANGED <<db, clock, thr, ops, notStore>>

NextStore ==
  \/ \E t \in Workers :
       \/ CallHas(t) \/ CallAdd(t) \/ CallAddIfNew(t) \/ CallFilterNew(t)
       \/ CallAddMany(t) \/ CallPrune(t) \/ CallPurgeOld(t) \/ CallClear(t)
       \/ CallClose(t)
       \/ Enter(t) \/ Acquire(t) \/ RaiseClosed(t) \/ Leave(t)
       \/ ExecHas(t) \/ ExecAdd(t) \/ SelectAddIfNew(t) \/ InsertAddIfNew(t)
       \/ ExecFilterNew(t) \/ ExecAddMany(t) \/ ExecPrune(t) \/ ExecPurgeOld(t)
       \/ ExecClear(t) \/ ExecClose(t) \/ Commit(t)
  \/ Tick
  \/ Crash
  \/ Reopen

SpecStore == InitStore /\ [][NextStore]_vars

---------------------------------------------------------------------------
(* Three callers sharing the store, one call each, every interleaving *)

RaceScope == <<PyStr("n2"), PyStr("")>>
RaceLists == {l \in Lists : Len(l) <= 1}

RaceHas(t) ==
  thr[t].pc = "idle" /\ \E eid \in PyIds : StartHas(t, RaceScope[1], RaceScope[2], eid)

RaceAdd(t) ==
  thr[t].pc = "idle" /\ \E eid \in PyIds : StartAdd(t, RaceScope[1], RaceScope[2], eid)

RaceAddIfNew(t) ==
  thr[t].pc = "idle" /\ \E eid \in PyIds : StartAddIfNew(t, RaceScope[1], RaceScope[2], eid)

RaceFilterNew(t) ==
  thr[t].pc = "idle" /\ \E ids \in RaceLists : StartFilterNew(t, RaceScope[1], RaceScope[2], ids)

RaceAddMany(t) ==
  thr[t].pc = "idle" /\ \E ids \in RaceLists : StartAddMany(t, RaceScope[1], RaceScope[2], ids)

NextRace ==
  \E t \in Racers :
    \/ RaceHas(t) \/ RaceAdd(t) \/ RaceAddIfNew(t) \/ RaceFilterNew(t) \/ RaceAddMany(t)
    \/ Enter(t) \/ Acquire(t)
    \/ ExecHas(t) \/ ExecAdd(t) \/ SelectAddIfNew(t) \/ InsertAddIfNew(t)
    \/ ExecFilterNew(t) \/ ExecAddMany(t) \/ Commit(t)

SpecRace == InitStore /\ [][NextRace]_vars

---------------------------------------------------------------------------
(* Properties of add_if_new *)

\* the answers add_if_new gave for tr, in order, since the last prune, purge_old or clear
Answers(tr) == SelectSeq(hist[tr].log, LAMBDA x : x # "R")

\* C1: of the add_if_new calls made for one (namespace, key, event_id) with no prune,
\* purge_old or clear between them, only the first returns True and every later one
\* returns False, also when the process was restarted (crash, or close and reopen of
\* the same file) between them; when add or add_many (or an earlier run) put the id
\* in first, all of them return False.
C1_OnlyFirstAddIfNewTrue ==
  \A tr \in Triples :
    LET a == Answers(tr) IN
      /\ \A i \in 2..Len(a) : a[i] = "F"
      /\ (a # <<>> /\ ~hist[tr].seeded) => a[1] = "T"
      /\ hist[tr].seeded => \A i \in 1..Len(a) : a[i] = "F"

\* an id answered True, then the process restarted, then the same id answered False
C1_Witness ==
  \E tr \in Triples : hist[tr].log = <<"T", "R", "F">> /\ ~hist[tr].seeded

\* the racers whose add_if_new call for tr is past its with-block
Finished(tr) ==
  {t \in Racers : thr[t].op = "add_if_new" /\ thr[t].pc = "ret" /\ Bound(thr[t]) = tr}

Winners(tr) == {t \in Finished(tr) : thr[t].ret = RetBool(TRUE)}

\* C2: add_if_new is an atomic check-and-insert: of the callers racing on one
\* (namespace, key, event_id), in every interleaving with each other and with has, add,
\* add_many and filter_new, every one returns a bool, at most one returns True, and
\* exactly one does when the id was not in the store and no add or add_many put it in.
C2_ExactlyOneRacerWins ==
  \A tr \in Triples :
    /\ \A t \in Finished(tr) : thr[t].ret.k = "bool"
    /\ Cardinality(Winners(tr)) <= 1
    /\ (Finished(tr) # {} /\ ~hist[tr].seeded) => Cardinality(Winners(tr)) = 1

\* two racers on one id, one True and one False, the third racer's add_many done too
C2_Witness ==
  \E tr \in Triples : \E t1, t2, t3 \in Racers :
    /\ t1 \in Winners(tr)
    /\ t2 \in Finished(tr) /\ thr[t2].ret = RetBool(FALSE)
    /\ thr[t3].op = "add_many" /\ thr[t3].pc = "ret" /\ thr[t3].ret.n > 0

---------------------------------------------------------------------------
(* Properties of filter_new, add_many, prune, purge_old and of durability *)

\* thread t, in a call of op, takes the step that runs its statement (or its early return)
Runs(t, op) ==
  /\ thr[t].op = op
  /\ thr[t].pc \in {"entry", "exec"}
  /\ thr'[t].pc \in {"commit", "ret"}
  /\ thr'[t].ret.k # "raise"

\* C3: filter_new returns the ids of event_ids, in their order, for which has() is
\* False, and no others, and no step of the call changes the store.
C3_FilterNewIsThoseNotHad ==
  [][\A t \in Workers :
       /\ Runs(t, "filter_new") =>
            thr'[t].ret = RetList(SelectSeq(thr[t].ids,
                            LAMBDA e : ~HasRow(conn, thr[t].ns, thr[t].key, e)))
       /\ thr[t].op = "filter_new" => (conn' = conn /\ db' = db)]_vars

\* a two-id list of which filter_new kept one and dropped the other
C3_Witness ==
  \E t \in Workers :
    /\ thr[t].op = "filter_new" /\ thr[t].pc = "ret"
    /\ Len(thr[t].ids) = 2 /\ Len(thr[t].ret.l) = 1

\* the str(id) of the ids of a list
IdSet(ids) == {Str(ids[i]) : i \in 1..Len(ids)}

\* C4: add_many inserts every id of event_ids that the scope does not hold, leaves the
\* rows that are there as they are, returns the number of rows inserted (the distinct
\* ids that were absent), and afterwards has() is True for every id of event_ids.
C4_AddManyInsertsAbsent ==
  [][\A t \in Workers :
       Runs(t, "add_many") =>
         LET c      == thr[t]
             absent == {e \in IdSet(c.ids) : Find(conn, c.ns.s, Str(c.key), e) = {}}
         IN /\ conn \subseteq conn'
            /\ {PK(r) : r \in conn' \ conn} = {<<c.ns.s, Str(c.key), e>> : e \in absent}
            /\ thr'[t].ret = RetInt(Cardinality(absent))
            /\ \A i \in 1..Len(c.ids) : HasRow(conn', c.ns, c.key, c.ids[i])]_vars

\* an add_many of two ids that inserted one row only
C4_Witness ==
  \E t \in Workers :
    /\ thr[t].op = "add_many" /\ thr[t].pc = "ret"
    /\ Len(thr[t].ids) = 2 /\ thr[t].ret = RetInt(1)
    /\ db = conn

\* C5: prune(namespace, key, keep), keep >= 0, leaves min(total, keep) rows in the
\* scope, deletes no row that was seen later than a row it keeps, returns the number
\* of rows deleted, and leaves the rows of every other scope as they are.
C5_PruneKeepsNewest ==
  [][\A t \in Workers :
       Runs(t, "prune") =>
         LET c     == thr[t]
             was   == ScopeRows(conn, c.ns.s, Str(c.key))
             is    == ScopeRows(conn', c.ns.s, Str(c.key))
             total == Cardinality(was)
         IN /\ is \subseteq was
            /\ Cardinality(is) = IF total < c.num THEN total ELSE c.num
            /\ \A d \in was \ is : \A r \in is : d.seen_at <= r.seen_at
            /\ thr'[t].ret = RetInt(Cardinality(was \ is))
            /\ conn' \ is = conn \ was]_vars

\* a prune that deleted the older of two rows while another scope holds a row
C5_Witness ==
  \E t \in Workers :
    /\ thr[t].op = "prune" /\ thr[t].pc = "ret" /\ thr[t].ret = RetInt(1) /\ thr[t].num = 1
    /\ Cardinality(ScopeRows(db, thr[t].ns.s, Str(thr[t].key))) = 1
    /\ db \ ScopeRows(db, thr[t].ns.s, Str(thr[t].key)) # {}

\* C6: purge_old(days) takes as cutoff the time of the call minus days * 86400,
\* deletes every row of every scope whose seen_at is before the cutoff, keeps every
\* row at or after it, and returns the number of rows deleted.
C6_PurgeOldDeletesBeforeCutoff ==
  [][\A t \in Workers :
       /\ (thr[t].op = "purge_old" /\ thr[t].pc = "entry" /\ thr'[t].pc = "lock") =>
            thr'[t].now = clock - thr[t].num * SECONDS_PER_DAY
       /\ Runs(t, "purge_old") =>
            /\ conn' = {r \in conn : r.seen_at >= thr[t].now}
            /\ thr'[t].ret = RetInt(Cardinality({r \in conn : r.seen_at < thr[t].now}))]_vars

\* a purge_old that deleted rows and kept a row seen exactly at the cutoff
C6_Witness ==
  \E t \in Workers :
    /\ thr[t].op = "purge_old" /\ thr[t].pc = "ret" /\ thr[t].ret.n > 0
    /\ \E r \in db : r.seen_at = thr[t].now

\* the process was restarted in this step: a crash during a call, or a reopen
RestartStep ==
  /\ \A t \in AllThreads : thr'[t] = Idle
  /\ isOpen'
  /\ (~isOpen \/ \E t \in AllThreads : thr[t].pc \notin {"idle", "ret"})

\* C7: when add, add_if_new, add_many, prune, purge_old or clear leaves its with-block
\* to return, the database file holds what the call wrote, and the store a process
\* opens after a crash or a close holds exactly the file's rows.
C7_ReturnedWritesAreInTheFile ==
  [][/\ \A t \in Workers : thr'[t].pc = "ret" => db' = conn'
     /\ RestartStep => (db' = db /\ conn' = db)]_vars

\* after a restart of the process the store holds the row an add_if_new had written
C7_Witness ==
  \E tr \in Triples :
    /\ hist[tr].log = <<"T", "R">>
    /\ Find(conn, tr[1], tr[2], tr[3]) # {}
    /\ \A t \in AllThreads : thr[t] = Idle

---------------------------------------------------------------------------
(* HFPaginator._paginate *)

PAGE_DELAY == 300           \* PAGE_DELAY = 0.3 seconds, in milliseconds

Items    == {"a", "b"}
PerPages == {1, 2}
Delays   == {0, PAGE_DELAY}
\* stop_condition: None (""), or `item == target`
Stops    == {""} \cup Items
\* what fetch_fn can return: any list of at most two items (None is falsy like [])
Pages    == UNION {[1..n -> Items] : n \in 0..2}

\* (mutation) the item is appended before the stop condition is tested
RECURSIVE AccumulateThenTest(_, _, _)
AccumulateThenTest(acc, items, stop) ==
  IF items = <<>> THEN [all_items |-> acc, stop |-> FALSE]
  ELSE IF stop # "" /\ Head(items) = stop
    THEN [all_items |-> Append(acc, Head(items)), stop |-> TRUE]
  ELSE AccumulateThenTest(Append(acc, Head(items)), Tail(items), stop)

\* for item in items: if stop_condition and stop_condition(item): stop = True; break
\*                    all_items.append(item)
RECURSIVE Accumulate(_, _, _)
Accumulate(acc, items, stop) ==
  IF items = <<>> THEN [all_items |-> acc, stop |-> FALSE]
  ELSE IF stop # "" /\ Head(items) = stop THEN [all_items |-> acc, stop |-> TRUE]
  ELSE Accumulate(Append(acc, Head(items)), Tail(items), stop)

\* (mutation) the check before bug fix #7: len(items) < 1
EmptyPage(items, perpage) == Len(items) < 1

\* len(items) < perpage
PartialPage(items, perpage) == Len(items) < perpage

\* (mutation) the delay is slept before every page
SleepsAlways(page, delay) == delay > 0

\* if page > 1 and delay > 0
SleepsBefore(page, delay) == page > 1 /\ delay > 0

InitPag ==
  /\ \E mp \in 0..MaxPages, pp \in PerPages, st \in Stops, dl \in Delays :
       pag = [pc |-> "for", page |-> 1, all_items |-> <<>>, max_pages |-> mp,
              perpage |-> pp, stop |-> st, delay |-> dl]
  /\ pagLog = NoLog
  /\ db = {} /\ conn = {} /\ isOpen = TRUE /\ lock = 0 /\ clock = StartTime
  /\ thr = [t \in AllThreads |-> Idle] /\ ops = 0 /\ hist = Restarted({})
  /\ CacheOff
  /\ WatchOff
  /\ LoopOff
  /\ ClientOff

\* for page in range(1, max_pages + 1): the loop ends, or sleeps, or fetches
PagFor ==
  /\ pag.pc = "for"
  /\ pag' = [pag EXCEPT !.pc = IF pag.page > pag.max_pages THEN "done"
                               ELSE IF SleepsBefore(pag.page, pag.delay) THEN "sleep"
                               ELSE "fetch"]
  /\ UNCHANGED <<pagLog, notPag>>

\* time.sleep(delay)
PagSleep ==
  /\ pag.pc = "sleep"
  /\ pagLog' = [pagLog EXCEPT !.slept = @ \cup {pag.page}]
  /\ pag' = [pag EXCEPT !.pc = "fetch"]
  /\ UNCHANGED notPag

\* items = fetch_fn(page) and the rest of the loop body
PagFetch ==
  /\ pag.pc = "fetch"
  /\ \E items \in Pages :
       LET r == Accumulate(pag.all_items, items, pag.stop) IN
       /\ pagLog' = [pagLog EXCEPT !.asked = Append(@, pag.page), !.got = Append(@, items)]
       /\ pag' =
            IF items = <<>> THEN [pag EXCEPT !.pc = "done"]
            ELSE IF r.stop THEN [pag EXCEPT !.pc = "done", !.all_items = r.all_items]
            ELSE IF PartialPage(items, pag.perpage)
              THEN [pag EXCEPT !.pc = "done", !.all_items = r.all_items]
            ELSE [pag EXCEPT !.pc = "for", !.page = @ + 1, !.all_items = r.all_items]
  /\ UNCHANGED notPag

NextPag == PagFor \/ PagSleep \/ PagFetch

SpecPag == InitPag /\ [][NextPag]_vars

\* fetch_fn returns, and the loop is scheduled
SpecPagFair == SpecPag /\ WF_vars(NextPag)

---------------------------------------------------------------------------
(* Properties of _paginate *)

RECURSIVE Concat(_)
Concat(pages) == IF pages = <<>> THEN <<>> ELSE Head(pages) \o Concat(Tail(pages))

\* the place of the first item the stop condition holds for, 0 when there is none
FirstMatch(seq, stop) ==
  IF \E i \in 1..Len(seq) : seq[i] = stop
    THEN CHOOSE i \in 1..Len(seq) : seq[i] = stop /\ \A j \in 1..(i - 1) : seq[j] # stop
    ELSE 0

\* C8: without a stop condition, _paginate fetches no page after the first page that
\* is empty or has fewer than perpage items, and returns the items of all the pages it
\* fetched, in page order, that short page's included.
C8_StopsAfterFirstShortPage ==
  pag.stop = "" =>
    LET got == pagLog.got
        k   == Len(got)
    IN /\ pag.all_items = Concat(got)
       /\ k <= pag.max_pages
       /\ \A i \in 1..(k - 1) : Len(got[i]) >= pag.perpage
       /\ (pag.pc # "done" /\ k >= 1) => Len(got[k]) >= pag.perpage
       /\ (pag.pc = "done" /\ k < pag.max_pages) => (k >= 1 /\ Len(got[k]) < pag.perpage)

\* pages of 2, 2 and 1 items with perpage = 2: all 5 items, 3 fetches, a 4th allowed
C8_Witness ==
  /\ pag.pc = "done" /\ pag.stop = "" /\ pag.perpage = 2 /\ pag.max_pages = 4
  /\ pagLog.asked = <<1, 2, 3>>
  /\ Len(pagLog.got[1]) = 2 /\ Len(pagLog.got[2]) = 2 /\ Len(pagLog.got[3]) = 1
  /\ Len(pag.all_items) = 5

\* C9: when the stop condition holds for an item of the pages fetched, _paginate
\* returns the items before the first such item, in page order, without that item or
\* any later one, and that item is on the last page it fetched.
C9_StopsBeforeFirstMatch ==
  LET all == Concat(pagLog.got)
      at  == FirstMatch(all, pag.stop)
      k   == Len(pagLog.got)
  IN /\ pag.stop # "" => \A i \in 1..Len(pag.all_items) : pag.all_items[i] # pag.stop
     /\ (pag.stop # "" /\ at # 0) =>
          /\ pag.pc = "done"
          /\ pag.all_items = SubSeq(all, 1, at - 1)
          /\ at > Len(Concat(SubSeq(pagLog.got, 1, k - 1)))

\* the stop condition holds for the 2nd item of page 2: the 3 items before it come back
C9_Witness ==
  /\ pag.pc = "done" /\ pag.stop = "b" /\ pag.max_pages = 4
  /\ pagLog.got = << <<"a", "a">>, <<"a", "b">> >>
  /\ pag.all_items = <<"a", "a", "a">>

\* C10: _paginate asks fetch_fn for the pages 1, 2, ..., k in this order, k <= max_pages,
\* sleeps the delay before the pages 2..k only (never before page 1), and ends.
C10_PagesInOrderThenDone ==
  /\ [](LET k == Len(pagLog.asked) IN
          /\ pagLog.asked = [i \in 1..k |-> i]
          /\ k <= pag.max_pages
          /\ pagLog.slept \subseteq 2..(k + 1)
          /\ pag.pc = "done" =>
               pagLog.slept = IF pag.delay > 0 THEN 2..k ELSE {})
  /\ <>(pag.pc = "done")

\* three pages fetched, the delay slept before the 2nd and the 3rd
C10_Witness ==
  pag.pc = "done" /\ pagLog.asked = <<1, 2, 3>> /\ pagLog.slept = {2, 3}
---------------------------------------------------------------------------
(* HFCache: the store and its statements *)

PyBool(b) == [t |-> "bool", i |-> IF b THEN 1 ELSE 0, s |-> ""]

\* what callers pass
CacheScopes == { <<"u", PyInt(1)>>, <<"u", PyList(1)>>, <<"f", PyInt(1)>> }
CacheNames  == {"u", "f"}
CValues     == {PyStr("a"), PyNone}
Ttls        == {PyNone, PyInt(0)}
NoneTtls    == {0, 1}
Defaults    == {PyNone, SENTINEL}
CtorTtls    == {1}
MaxSizes    == {0, 1, 2}

\* cache_key = (namespace, _make_hashable(key))
CacheKey(ns, key) == <<ns, MakeHashable(key)>>

\* an entry of self._store: cache_key -> (value, expire_at)
Entry(ck, value, expire_at) == [k |-> ck, v |-> value, exp |-> expire_at]

\* the position of cache_key in the dict, 0 when it is not a key
IndexOf(store, ck) ==
  IF \E i \in 1..Len(store) : store[i].k = ck
    THEN CHOOSE i \in 1..Len(store) : store[i].k = ck
    ELSE 0

\* del self._store[k], k at position i
DelItem(store, i) == SubSeq(store, 1, i - 1) \o SubSeq(store, i + 1, Len(store))

\* self._store[cache_key] = (stored, expire_at): a key already there keeps its place
SetItem(store, ck, stored, expire_at) ==
  IF IndexOf(store, ck) = 0
    THEN Append(store, Entry(ck, stored, expire_at))
    ELSE [store EXCEPT ![IndexOf(store, ck)] = Entry(ck, stored, expire_at)]

\* min(self._store, key=lambda k: self._store[k][1]): the first key, in dict
\* order, among those of least expire_at
OldestKey(store) ==
  CHOOSE i \in 1..Len(store) :
    /\ \A j \in 1..Len(store) : store[j].exp >= store[i].exp
    /\ \A j \in 1..(i - 1) : store[j].exp > store[i].exp

\* stored = _NONE_CACHED if value is None else value
Stored(value) == IF value = PyNone THEN NONE_CACHED ELSE value

\* return None if value is _NONE_CACHED else value
Unwrapped(value) == IF value = NONE_CACHED THEN PyNone ELSE value

\* an entry taken as expired at its deadline already
ExpiredAtDeadline(now, expire_at) == now >= expire_at

\* get: time.monotonic() > expire_at
Expired(now, expire_at) == now > expire_at

\* get_or_fetch: time.monotonic() <= expire_at
Unexpired(now, expire_at) == now <= expire_at

\* set: time.monotonic() + (ttl if ttl is not None else self._default_ttl)
ExpireAt(now, ttl, default_ttl) == now + (IF ttl # PyNone THEN ttl.i ELSE default_ttl)

\* an eviction only once the store is over maxsize
MustEvictOver(store, maxsize, ck) == maxsize # 0 /\ Len(store) > maxsize

\* set: if self._maxsize and len(self._store) >= self._maxsize
MustEvict(store, maxsize, ck) == maxsize # 0 /\ Len(store) >= maxsize

\* a None result cached whatever none_ttl is
CachesNoneAlways(none_ttl) == TRUE

\* get_or_fetch: a None result is cached if none_ttl > 0
CachesNone(none_ttl) == none_ttl > 0

---------------------------------------------------------------------------
(* HFCache: the calls *)

CanCallCache(t) == cthr[t].pc = "idle" /\ cops < MaxCacheOps

CacheCall(t, c) ==
  /\ cthr' = [cthr EXCEPT ![t] = c]
  /\ cops' = cops + 1
  /\ UNCHANGED <<cache, clk, mono, notCache>>

\* get(namespace, key, default)
StartGet(ns, key, default) ==
  [CIdle EXCEPT !.pc = "lock", !.op = "get", !.ns = ns, !.key = key, !.dflt = default]

\* set(namespace, key, value, ttl)
StartSet(ns, key, value, ttl) ==
  [CIdle EXCEPT !.pc = "entry", !.op = "set", !.ns = ns, !.key = key, !.val = value,
                !.ttl = ttl, !.set_ttl = ttl]

\* delete(namespace, key)
StartDelete(ns, key) ==
  [CIdle EXCEPT !.pc = "lock", !.op = "delete", !.ns = ns, !.key = key]

\* invalidate(namespace)
StartInvalidate(ns) == [CIdle EXCEPT !.pc = "lock", !.op = "invalidate", !.ns = ns]

\* clear()
StartCacheClear == [CIdle EXCEPT !.pc = "lock", !.op = "clear"]

\* purge_expired()
StartPurgeExpired == [CIdle EXCEPT !.pc = "entry", !.op = "purge_expired"]

\* get_or_fetch(namespace, key, fetch_fn, ttl, none_ttl)
StartGetOrFetch(ns, key, ttl, none_ttl) ==
  [CIdle EXCEPT !.pc = "lock", !.op = "get_or_fetch", !.ns = ns, !.key = key,
                !.ttl = ttl, !.none_ttl = none_ttl]

CallGet(t) ==
  /\ CanCallCache(t)
  /\ \E sc \in CacheScopes, d \in Defaults : CacheCall(t, StartGet(sc[1], sc[2], d))

CallSet(t) ==
  /\ CanCallCache(t)
  /\ \E sc \in CacheScopes, v \in CValues, ttl \in Ttls :
       CacheCall(t, StartSet(sc[1], sc[2], v, ttl))

CallDelete(t) ==
  /\ CanCallCache(t)
  /\ \E sc \in CacheScopes : CacheCall(t, StartDelete(sc[1], sc[2]))

CallInvalidate(t) ==
  /\ CanCallCache(t)
  /\ \E ns \in CacheNames : CacheCall(t, StartInvalidate(ns))

CallCacheClear(t) ==
  /\ CanCallCache(t)
  /\ CacheCall(t, StartCacheClear)

CallPurgeExpired(t) ==
  /\ CanCallCache(t)
  /\ CacheCall(t, StartPurgeExpired)

CallGetOrFetch(t) ==
  /\ CanCallCache(t)
  /\ \E sc \in CacheScopes, ttl \in Ttls, nt \in NoneTtls :
       CacheCall(t, StartGetOrFetch(sc[1], sc[2], ttl, nt))

\* the code before `with self._lock`: set computes expire_at, purge_expired reads
\* the time
CacheEnter(t) ==
  /\ cthr[t].pc = "entry"
  /\ cthr' = [cthr EXCEPT ![t].pc = "lock",
                          ![t].at = IF cthr[t].op = "purge_expired" THEN mono
                                    ELSE ExpireAt(mono, cthr[t].set_ttl, cache.default_ttl)]
  /\ UNCHANGED <<cache, clk, mono, cops, notCache>>

\* the cache's lock can be taken
CacheLockFree == clk = 0

\* with self._lock:
CacheAcquire(t) ==
  /\ cthr[t].pc = "lock"
  /\ CacheLockFree
  /\ clk' = t
  /\ cthr' = [cthr EXCEPT ![t].pc = "in"]
  /\ UNCHANGED <<cache, mono, cops, notCache>>

\* the with-block is left and the method returns v
CacheReturn(t, v) == [cthr EXCEPT ![t].pc = "ret", ![t].ret = v]

\* the body of get
ExecGet(t) ==
  LET c  == cthr[t]
      ck == CacheKey(c.ns, c.key)
      i  == IndexOf(cache.store, ck)
  IN /\ c.pc = "in" /\ c.op = "get"
     /\ IF i = 0
          THEN /\ cache' = [cache EXCEPT !.misses = @ + 1]
               /\ cthr' = CacheReturn(t, c.dflt)
          ELSE IF Expired(mono, cache.store[i].exp)
            THEN /\ cache' = [cache EXCEPT !.store = DelItem(@, i), !.misses = @ + 1]
                 /\ cthr' = CacheReturn(t, c.dflt)
            ELSE /\ cache' = [cache EXCEPT !.hits = @ + 1]
                 /\ cthr' = [CacheReturn(t, Unwrapped(cache.store[i].v))
                               EXCEPT ![t].hit = TRUE]
     /\ clk' = 0
     /\ UNCHANGED <<mono, cops, notCache>>

\* the store after the body of set
AfterSet(store, maxsize, ck, stored, expire_at) ==
  SetItem(IF MustEvict(store, maxsize, ck) THEN DelItem(store, OldestKey(store))
                                           ELSE store,
          ck, stored, expire_at)

\* the body of set, called by the caller or by get_or_fetch
ExecSet(t) ==
  LET c  == cthr[t]
      ck == CacheKey(c.ns, c.key)
  IN /\ c.pc = "in" /\ (c.op = "set" \/ c.inner)
     /\ cache' = [cache EXCEPT
                    !.store = AfterSet(@, cache.maxsize, ck, Stored(c.val), c.at)]
     /\ cthr' = CacheReturn(t, IF c.inner THEN c.val ELSE PyNone)
     /\ clk' = 0
     /\ UNCHANGED <<mono, cops, notCache>>

\* the body of delete
ExecDelete(t) ==
  LET c == cthr[t]
      i == IndexOf(cache.store, CacheKey(c.ns, c.key))
  IN /\ c.pc = "in" /\ c.op = "delete"
     /\ cache' = [cache EXCEPT !.store = IF i = 0 THEN @ ELSE DelItem(@, i)]
     /\ cthr' = CacheReturn(t, PyBool(i # 0))
     /\ clk' = 0
     /\ UNCHANGED <<mono, cops, notCache>>

\* the body of invalidate
ExecInvalidate(t) ==
  LET c == cthr[t]
      OtherName(e) == e.k[1] # c.ns
      rest == SelectSeq(cache.store, OtherName)
  IN /\ c.pc = "in" /\ c.op = "invalidate"
     /\ cache' = [cache EXCEPT !.store = rest]
     /\ cthr' = CacheReturn(t, PyInt(Len(cache.store) - Len(rest)))
     /\ clk' = 0
     /\ UNCHANGED <<mono, cops, notCache>>

\* the body of clear
ExecCacheClear(t) ==
  LET c == cthr[t]
  IN /\ c.pc = "in" /\ c.op = "clear"
     /\ cache' = [cache EXCEPT !.store = <<>>]
     /\ cthr' = CacheReturn(t, PyInt(Len(cache.store)))
     /\ clk' = 0
     /\ UNCHANGED <<mono, cops, notCache>>

\* the body of purge_expired: now was read before the lock
ExecPurgeExpired(t) ==
  LET c == cthr[t]
      Live(e) == ~ (c.at > e.exp)
      rest == SelectSeq(cache.store, Live)
  IN /\ c.pc = "in" /\ c.op = "purge_expired"
     /\ cache' = [cache EXCEPT !.store = rest]
     /\ cthr' = CacheReturn(t, PyInt(Len(cache.store) - Len(rest)))
     /\ clk' = 0
     /\ UNCHANGED <<mono, cops, notCache>>

\* the first with-block of get_or_fetch: a hit returns, a miss goes on to fetch_fn
ExecGetOrFetch(t) ==
  LET c  == cthr[t]
      ck == CacheKey(c.ns, c.key)
      i  == IndexOf(cache.store, ck)
  IN /\ c.pc = "in" /\ c.op = "get_or_fetch" /\ ~ c.inner
     /\ IF i # 0 /\ Unexpired(mono, cache.store[i].exp)
          THEN /\ cache' = [cache EXCEPT !.hits = @ + 1]
               /\ cthr' = [CacheReturn(t, Unwrapped(cache.store[i].v))
                             EXCEPT ![t].hit = TRUE]
          ELSE /\ cache' = [cache EXCEPT !.store = IF i # 0 THEN DelItem(@, i) ELSE @,
                                         !.misses = @ + 1]
               /\ cthr' = [cthr EXCEPT ![t].pc = "fetch"]
     /\ clk' = 0
     /\ UNCHANGED <<mono, cops, notCache>>

\* value = fetch_fn(), then self.set(...) with none_ttl or ttl, or no set at all
Fetch(t) ==
  LET c == cthr[t]
  IN /\ c.pc = "fetch"
     /\ \E value \in CValues :
          cthr' = [cthr EXCEPT ![t] =
            IF value = PyNone
              THEN IF CachesNone(c.none_ttl)
                     THEN [c EXCEPT !.pc = "entry", !.inner = TRUE, !.val = value,
                                    !.set_ttl = PyInt(c.none_ttl), !.fetched = @ + 1]
                     ELSE [c EXCEPT !.pc = "ret", !.val = value, !.ret = value,
                                    !.fetched = @ + 1]
              ELSE [c EXCEPT !.pc = "entry", !.inner = TRUE, !.val = value,
                             !.set_ttl = c.ttl, !.fetched = @ + 1]]
     /\ UNCHANGED <<cache, clk, mono, cops, notCache>>

\* the caller has its result
CacheLeave(t) ==
  /\ cthr[t].pc = "ret"
  /\ cthr' = [cthr EXCEPT ![t] = CIdle]
  /\ UNCHANGED <<cache, clk, mono, cops, notCache>>

\* time passes
MonoTick ==
  /\ mono < MaxMono
  /\ mono' = mono + 1
  /\ UNCHANGED <<cache, clk, cthr, cops, notCache>>

\* the store and the paginator are not in use
StoreOff ==
  /\ db = {} /\ conn = {} /\ isOpen = TRUE /\ lock = 0 /\ clock = StartTime
  /\ thr = [t \in AllThreads |-> Idle] /\ ops = 0 /\ hist = Restarted({})
  /\ pag = PagOff /\ pagLog = NoLog

InitCache ==
  /\ StoreOff
  /\ WatchOff
  /\ LoopOff
  /\ ClientOff
  /\ \E ttl \in CtorTtls, maxsize \in MaxSizes : cache = HFCacheInit(ttl, maxsize)
  /\ clk = 0
  /\ mono = 0
  /\ cthr = [t \in Callers |-> CIdle]
  /\ cops = 0

CacheStep(t) ==
  \/ CacheEnter(t) \/ CacheAcquire(t)
  \/ ExecGet(t) \/ ExecSet(t) \/ ExecDelete(t) \/ ExecInvalidate(t)
  \/ ExecCacheClear(t) \/ ExecPurgeExpired(t) \/ ExecGetOrFetch(t) \/ Fetch(t)

NextCache ==
  \/ CallGet(1) \/ CallSet(1) \/ CallDelete(1) \/ CallInvalidate(1)
  \/ CallCacheClear(1) \/ CallPurgeExpired(1) \/ CallGetOrFetch(1)
  \/ CacheStep(1) \/ CacheLeave(1)
  \/ MonoTick

SpecCache == InitCache /\ [][NextCache]_vars

\* two callers, one call each, no time passing
RaceGet(t) ==
  /\ cthr[t].pc = "idle" /\ cops < 2 /\ cops = t - 1
  /\ \E d \in Defaults : CacheCall(t, StartGet("u", PyInt(1), d))

RaceSet(t) ==
  /\ cthr[t].pc = "idle" /\ cops < 2 /\ cops = t - 1
  /\ \E sc \in CacheScopes, v \in CValues : CacheCall(t, StartSet(sc[1], sc[2], v, PyNone))

RaceDelete(t) ==
  /\ cthr[t].pc = "idle" /\ cops < 2 /\ cops = t - 1
  /\ CacheCall(t, StartDelete("u", PyInt(1)))

RaceGetOrFetch(t) ==
  /\ cthr[t].pc = "idle" /\ cops < 2 /\ cops = t - 1
  /\ \E nt \in NoneTtls : CacheCall(t, StartGetOrFetch("u", PyInt(1), PyNone, nt))

NextCacheRace ==
  \E t \in Callers :
    \/ RaceGet(t) \/ RaceSet(t) \/ RaceDelete(t) \/ RaceGetOrFetch(t)
    \/ CacheEnter(t) \/ CacheAcquire(t)
    \/ ExecGet(t) \/ ExecSet(t) \/ ExecDelete(t) \/ ExecGetOrFetch(t) \/ Fetch(t)

SpecCacheRace == InitCache /\ [][NextCacheRace]_vars

---------------------------------------------------------------------------
(* HFCache: the claims *)

\* the keys of a store
KeysOf(store) == {store[i].k : i \in 1..Len(store)}

\* caller t runs the body of op in this step
CacheRuns(t, op) ==
  /\ cthr[t].pc = "in" /\ cthr[t].op = op /\ ~ cthr[t].inner
  /\ cthr'[t].pc # "in"

\* C11: a get of a key that holds a cached None returns None, not the default,
\* as long as the time is not past the entry's expire_at; once it is, get
\* returns the default and the entry is gone from the store.
C11_CachedNoneIsNotAMiss ==
  [][\A t \in Callers :
       CacheRuns(t, "get") =>
         LET ck == <<cthr[t].ns, MakeHashable(cthr[t].key)>>
             i  == IndexOf(cache.store, ck)
         IN (i # 0 /\ cache.store[i].v = NONE_CACHED) =>
              IF mono <= cache.store[i].exp
                THEN /\ cthr'[t].ret = PyNone
                     /\ ck \in KeysOf(cache'.store)
                ELSE /\ cthr'[t].ret = cthr[t].dflt
                     /\ ck \notin KeysOf(cache'.store)]_vars

\* a get with a default other than None has returned the cached None, at the
\* very time the entry expires
C11_Witness ==
  /\ cthr[1].pc = "ret" /\ cthr[1].op = "get"
  /\ cthr[1].dflt = SENTINEL /\ cthr[1].ret = PyNone /\ cthr[1].hit
  /\ \E i \in 1..Len(cache.store) : cache.store[i].v = NONE_CACHED /\ cache.store[i].exp = mono
  /\ mono > 0

\* the first with-block of get_or_fetch: an unexpired entry is returned and
\* fetch_fn is not called
GofHit(t) ==
  CacheRuns(t, "get_or_fetch") =>
    LET ck == <<cthr[t].ns, MakeHashable(cthr[t].key)>>
        i  == IndexOf(cache.store, ck)
    IN IF i # 0 /\ mono <= cache.store[i].exp
         THEN /\ cthr'[t].pc = "ret" /\ cthr'[t].fetched = 0
              /\ cthr'[t].ret = (IF cache.store[i].v = NONE_CACHED THEN PyNone
                                                                  ELSE cache.store[i].v)
         ELSE cthr'[t].pc = "fetch"

\* a get_or_fetch that returns has called fetch_fn once, or not at all on a hit,
\* and returns what fetch_fn gave
GofFetchesOnce(t) ==
  (cthr[t].op = "get_or_fetch" /\ cthr[t].pc = "ret") =>
    /\ cthr[t].fetched = (IF cthr[t].hit THEN 0 ELSE 1)
    /\ ~ cthr[t].hit => cthr[t].ret = cthr[t].val

\* the ttl the claim has the fetched result cached with
GofTtl(c, default_ttl) ==
  IF c.val = PyNone /\ c.none_ttl > 0 THEN c.none_ttl
  ELSE IF c.ttl # PyNone THEN c.ttl.i ELSE default_ttl

\* the set that get_or_fetch makes: the expiry is computed with the claim's
\* ttl, and the entry is in the store when the call returns
GofCaches(t) ==
  /\ (cthr[t].inner /\ cthr[t].pc = "entry" /\ cthr'[t].pc = "lock") =>
        cthr'[t].at = mono + GofTtl(cthr[t], cache.default_ttl)
  /\ (cthr[t].inner /\ cthr[t].pc = "in" /\ cthr'[t].pc = "ret") =>
        \E i \in 1..Len(cache'.store) :
          /\ cache'.store[i].k = <<cthr[t].ns, MakeHashable(cthr[t].key)>>
          /\ cache'.store[i].v = (IF cthr[t].val = PyNone THEN NONE_CACHED ELSE cthr[t].val)
          /\ cache'.store[i].exp = cthr[t].at

\* after fetch_fn: every result goes to a set (the claim as stated)
GofAlwaysSets(t) ==
  (cthr[t].pc = "fetch" /\ cthr'[t].pc # "fetch") =>
     cthr'[t].inner /\ cthr'[t].pc = "entry"

\* after fetch_fn: a None result with none_ttl <= 0 is returned uncached, every
\* other result goes to a set
GofSetsUnlessNoneTtlOff(t) ==
  (cthr[t].pc = "fetch" /\ cthr'[t].pc # "fetch") =>
     IF cthr'[t].val = PyNone /\ cthr[t].none_ttl <= 0
       THEN cthr'[t].pc = "ret" /\ cthr'[t].ret = PyNone /\ cache'.store = cache.store
       ELSE cthr'[t].inner /\ cthr'[t].pc = "entry"

\* C12 as stated: get_or_fetch returns an unexpired entry without calling
\* fetch_fn; otherwise it calls fetch_fn once, caches the result (with none_ttl
\* for a None result when none_ttl > 0, with ttl otherwise) and returns it.
C12_GetOrFetchAlwaysCaches ==
  [][\A t \in Callers :
       GofHit(t) /\ GofFetchesOnce(t) /\ GofCaches(t) /\ GofAlwaysSets(t)]_vars

\* C12 amended: as stated, except that a None result with none_ttl <= 0 is
\* returned without being cached.
C12_GetOrFetchCachesUnlessNoneTtlOff ==
  [][\A t \in Callers :
       GofHit(t) /\ GofFetchesOnce(t) /\ GofCaches(t) /\ GofSetsUnlessNoneTtlOff(t)]_vars

\* a get_or_fetch has returned a cached None without calling fetch_fn, after an
\* earlier get_or_fetch missed
C12_Witness ==
  /\ cthr[1].pc = "ret" /\ cthr[1].op = "get_or_fetch"
  /\ cthr[1].hit /\ cthr[1].fetched = 0 /\ cthr[1].ret = PyNone
  /\ cache.misses = 1 /\ cops = 2

\* C13: a set evicts only when the new entry would make the number of entries
\* exceed maxsize, and then exactly one entry, of least expire_at; a set that
\* overwrites a key, or fits, evicts nothing.
C13_EvictsOnlyWhenOverfull ==
  [][\A t \in Callers :
       (cthr[t].pc = "in" /\ (cthr[t].op = "set" \/ cthr[t].inner) /\ cthr'[t].pc = "ret") =>
         LET ck     == <<cthr[t].ns, MakeHashable(cthr[t].key)>>
             before == KeysOf(cache.store)
             lost   == before \ KeysOf(cache'.store)
             over   == /\ cache.maxsize > 0
                       /\ ck \notin before
                       /\ Cardinality(before) + 1 > cache.maxsize
         IN IF over
              THEN \E i \in 1..Len(cache.store) :
                     /\ lost = {cache.store[i].k}
                     /\ \A j \in 1..Len(cache.store) : cache.store[j].exp >= cache.store[i].exp
              ELSE lost = {}]_vars

\* caller t of get_or_fetch has read the store and has its write to come
ReadNotYetWritten(t) ==
  cthr[t].op = "get_or_fetch" /\ cthr[t].inner /\ cthr[t].pc \in {"entry", "lock", "in"}

\* C14: every operation is one critical section: between an operation's read
\* of the store and its write no other caller's operation changes the store.
C14_OneCriticalSectionPerOperation ==
  [][\A t \in Callers :
       (ReadNotYetWritten(t) /\ cthr'[t] = cthr[t]) => cache'.store = cache.store]_vars

---------------------------------------------------------------------------
(* HFWatcher: what the API returns and what the callback is called with *)

\* int(t.get("tid") or 0): 0 stands for a missing or empty field
Ids       == 0..MaxId
Datelines == 0..MaxTime
Records   == [id : Ids, dateline : Datelines]
RowLists(n) == UNION {[1..m -> Records] : m \in 0..n}

\* what `await self._hf.read(...)` returns: None (or an empty dict), a dict
\* without the resource's key, the key with None, or the resource as a list (of
\* at most n records) or as one dict
ResponsesOf(n) ==
  [kind : {"none", "nokey", "null"}, val : {<<>>}] \cup [kind : {"list"}, val : RowLists(n)]
    \cup [kind : {"dict"}, val : Records]
Responses     == ResponsesOf(MaxRows)
UserResponses == ResponsesOf(MaxUserRows)

\* a response without the resource's key taken for data
HasAnyData(resp) == resp.kind # "none"

\* not (not data or "threads" not in data)
HasData(resp) == resp.kind \notin {"none", "nokey"}

\* what the first fetch of an iteration came back with: no data is None or a
\* response without the resource's key
FirstFetch(kind) == IF kind \in {"none", "nokey"} THEN "nodata" ELSE "data"

\* if isinstance(threads, dict): threads = [threads], and `threads or []` where
\* the key holds None
AsList(resp) == IF resp.kind = "dict" THEN <<resp.val>> ELSE resp.val

\* x put into a list sorted by dateline, after the records of the same dateline
RECURSIVE Inserted(_, _)
Inserted(sorted, x) ==
  IF sorted = <<>> THEN <<x>>
  ELSE IF Head(sorted).dateline <= x.dateline
         THEN <<Head(sorted)>> \o Inserted(Tail(sorted), x)
         ELSE <<x>> \o sorted

\* sorted(rows, key=lambda x: int(x.get("dateline") or 0)): a stable sort
RECURSIVE SortedByDateline(_)
SortedByDateline(rows) ==
  IF rows = <<>> THEN <<>>
  ELSE Inserted(SortedByDateline(SubSeq(rows, 1, Len(rows) - 1)), rows[Len(rows)])

\* the ids of the records that have one: `if tid: w._seen_tids.add(tid)`
IdsOf(rows) == {rows[i].id : i \in 1..Len(rows)} \ {0}

\* a loop that skips nothing
SkipNothing(rows, seen) == rows

\* the loop `for t in ...: if not tid or tid in seen: continue` up to the first
\* record it does not skip
RECURSIVE SkipSeen(_, _)
SkipSeen(rows, seen) ==
  IF rows = <<>> \/ (Head(rows).id # 0 /\ Head(rows).id \notin seen) THEN rows
  ELSE SkipSeen(Tail(rows), seen)

\* the sets that set(list(seen)[-keep:]) can be when len(seen) > cap: the
\* order of list(seen) is the set's own, so any keep elements; else seen as is
Trimmed(seen, cap, keep) ==
  IF Cardinality(seen) > cap
    THEN {S \in SUBSET seen : Cardinality(S) = keep}
    ELSE {seen}

\* the dict the callback is awaited with
Event(event, id, dateline) == [event |-> event, id |-> id, dateline |-> dateline]

\* the callback was called with an event of this kind for this id (of the
\* new_thread events it is also kept what earlier processes emitted)
Noted(log, event, id) ==
  [log EXCEPT !.once = @ \cup {<<event, id>>},
              !.notified = IF event = "new_thread" THEN @ \cup {<<event, id>>} ELSE @]

\* the first seeding ever, of any process, is the cold start
ColdStart(log, event, ids) ==
  IF log.seeded THEN log
  ELSE [log EXCEPT !.seeded = TRUE, !.cold = {<<event, id>> : id \in ids}]

\* a poll iteration can start
CanPoll(kind) == poll.pc = "sleep" /\ w.kind = kind /\ wn.polls < MaxPolls

---------------------------------------------------------------------------
(* HFWatcher._poll_forum *)

\* the fetch, the cold start, and the sorted list the loop goes through
PollForum ==
  /\ CanPoll("forum")
  /\ wn' = [wn EXCEPT !.polls = @ + 1]
  /\ \E resp \in Responses :
       IF ~ HasData(resp)
         THEN /\ poll' = [Sleeping EXCEPT !.pc = "done", !.first = FirstFetch(resp.kind)]
              /\ UNCHANGED <<w, wlog>>
         ELSE IF ~ w.initialized
           THEN /\ w' = [w EXCEPT !.seen_tids = @ \cup IdsOf(AsList(resp)),
                                  !.initialized = TRUE]
                /\ poll' = [Sleeping EXCEPT !.pc = "done", !.got = TRUE,
                                            !.first = FirstFetch(resp.kind),
                                            !.resp = AsList(resp)]
                /\ wlog' = ColdStart(wlog, "new_thread", IdsOf(AsList(resp)))
           ELSE /\ poll' = [Sleeping EXCEPT !.pc = "emit", !.got = TRUE, !.init0 = TRUE,
                                            !.first = FirstFetch(resp.kind),
                                            !.rows = SortedByDateline(AsList(resp)),
                                            !.resp = AsList(resp),
                                            !.seen0 = w.seen_tids]
                /\ UNCHANGED <<w, wlog>>
  /\ UNCHANGED notWatch

\* the loop up to and including the next `await w.callback(...)`, which returns
\* or raises; after the last record the seen-set is bounded
ForumEmit ==
  /\ poll.pc = "emit" /\ w.kind = "forum"
  /\ LET rest == SkipSeen(poll.rows, w.seen_tids)
     IN IF rest = <<>>
          THEN /\ \E S \in Trimmed(w.seen_tids, ForumCap, ForumKeep) :
                    w' = [w EXCEPT !.seen_tids = S]
               /\ poll' = [poll EXCEPT !.pc = "done", !.rows = <<>>]
               /\ UNCHANGED wlog
          ELSE /\ w' = [w EXCEPT !.seen_tids = @ \cup {Head(rest).id}]
               /\ wlog' = Noted(wlog, "new_thread", Head(rest).id)
               /\ \E raises \in BOOLEAN :
                    poll' = [poll EXCEPT
                      !.pc = IF raises THEN "raised" ELSE "emit",
                      !.rows = IF raises THEN <<>> ELSE Tail(rest),
                      !.ev = Append(@, Event("new_thread", Head(rest).id,
                                             Head(rest).dateline))]
  /\ UNCHANGED <<wn, notWatch>>

---------------------------------------------------------------------------
(* HFWatcher._poll_thread *)

\* the thread's metadata as the API returns it: nothing, no "threads" key, an
\* empty list, or the thread (as a dict or first in a list)
NumReplies == {0, 10}
MetaResponses ==
  [kind : {"none", "nokey", "empty"}, lastpost : {0}, numreplies : {0}]
    \cup [kind : {"dict", "list"}, lastpost : 0..(MaxTime + 1), numreplies : NumReplies]

\* not (not meta or "threads" not in meta), and `if not threads: return`
HasThread(meta) == meta.kind \in {"dict", "list"}

\* last_page = max(1, (numreplies + 1 + 9) // 10)
LastPage(numreplies) ==
  IF (numreplies + 1 + 9) \div 10 > 1 THEN (numreplies + 1 + 9) \div 10 ELSE 1

\* the pid of the event emitted when the posts could not be fetched: None
NoPid == 0 - 1

\* a reply dated before the baseline, not at it
Before(dateline, last_post) == dateline < last_post

\* if dateline <= w._last_post: continue
NotAfter(dateline, last_post) == dateline <= last_post

\* the loop over the posts up to the first one it does not skip
RECURSIVE SkipOld(_, _, _)
SkipOld(rows, last_post, seen) ==
  IF rows = <<>> THEN rows
  ELSE IF NotAfter(Head(rows).dateline, last_post) \/ Head(rows).id \in seen
         THEN SkipOld(Tail(rows), last_post, seen)
         ELSE rows

\* a lastpost that has not fallen behind the baseline
NeverBehind(lastpost, last_post) == FALSE

\* a lastpost behind the baseline, not at it
Behind(lastpost, last_post) == lastpost < last_post

\* if lastpost <= w._last_post: return
NotAdvanced(lastpost, last_post) == lastpost <= last_post

\* the metadata fetch: the first observation sets the baseline, an unchanged
\* lastpost ends the iteration, an advanced one goes on to the posts
PollThread ==
  /\ CanPoll("thread")
  /\ wn' = [wn EXCEPT !.polls = @ + 1]
  /\ \E meta \in MetaResponses :
       IF ~ HasThread(meta)
         THEN /\ poll' = [Sleeping EXCEPT !.pc = "done", !.first = FirstFetch(meta.kind)]
              /\ w' = w
         ELSE IF w.last_post = 0
           THEN /\ w' = [w EXCEPT !.last_post = meta.lastpost]
                /\ poll' = [Sleeping EXCEPT !.pc = "done", !.lastpost = meta.lastpost,
                                            !.first = FirstFetch(meta.kind)]
           ELSE IF NotAdvanced(meta.lastpost, w.last_post)
             THEN /\ poll' = [Sleeping EXCEPT !.pc = "done", !.lastpost = meta.lastpost,
                                              !.first = FirstFetch(meta.kind),
                                              !.base0 = w.last_post, !.seen0 = w.seen_pids]
                  /\ w' = w
             ELSE /\ poll' = [Sleeping EXCEPT !.pc = "posts", !.lastpost = meta.lastpost,
                                !.first = FirstFetch(meta.kind),
                                !.last_page = LastPage(meta.numreplies),
                                !.base0 = w.last_post, !.seen0 = w.seen_pids]
                  /\ w' = w
  /\ UNCHANGED <<wlog, notWatch>>

\* the posts fetch: without data one event with pid None is emitted and the
\* baseline advances; posts.sort(...) raises when "posts" holds None
ThreadPosts ==
  /\ poll.pc = "posts" /\ w.kind = "thread"
  /\ \E resp \in Responses :
       IF ~ HasData(resp)
         THEN /\ wlog' = Noted(wlog, "thread_reply", NoPid)
              /\ \E raises \in BOOLEAN :
                   /\ poll' = [poll EXCEPT
                        !.pc = IF raises THEN "raised" ELSE "done",
                        !.ev = Append(@, Event("thread_reply", NoPid, poll.lastpost))]
                   /\ w' = IF raises THEN w ELSE [w EXCEPT !.last_post = poll.lastpost]
         ELSE IF resp.kind = "null"
           THEN /\ poll' = [poll EXCEPT !.pc = "raised"]
                /\ UNCHANGED <<w, wlog>>
           ELSE /\ poll' = [poll EXCEPT !.pc = "emit", !.got = TRUE,
                                        !.rows = SortedByDateline(AsList(resp)),
                                        !.resp = AsList(resp)]
                /\ UNCHANGED <<w, wlog>>
  /\ UNCHANGED <<wn, notWatch>>

\* the loop up to and including the next `await w.callback(...)`; after the
\* last post the baseline advances and the seen-set is bounded
ThreadEmit ==
  /\ poll.pc = "emit" /\ w.kind = "thread"
  /\ LET rest == SkipOld(poll.rows, w.last_post, w.seen_pids)
     IN IF rest = <<>>
          THEN /\ \E S \in Trimmed(w.seen_pids, ThreadCap, ThreadKeep) :
                    w' = [w EXCEPT !.last_post = poll.lastpost, !.seen_pids = S]
               /\ poll' = [poll EXCEPT !.pc = "done", !.rows = <<>>]
               /\ UNCHANGED wlog
          ELSE /\ w' = [w EXCEPT !.seen_pids = @ \cup {Head(rest).id}]
               /\ wlog' = Noted(wlog, "thread_reply", Head(rest).id)
               /\ \E raises \in BOOLEAN :
                    poll' = [poll EXCEPT
                      !.pc = IF raises THEN "raised" ELSE "emit",
                      !.rows = IF raises THEN <<>> ELSE Tail(rest),
                      !.ev = Append(@, Event("thread_reply", Head(rest).id,
                                             Head(rest).dateline))]
  /\ UNCHANGED <<wn, notWatch>>

---------------------------------------------------------------------------
(* HFWatcher._poll_user *)

\* the first successful fetch of a sub-stream in this process returned ids
FirstThreads(log, ids) == IF log.gotT THEN log ELSE [log EXCEPT !.gotT = TRUE, !.firstT = ids]
FirstPosts(log, ids)   == IF log.gotP THEN log ELSE [log EXCEPT !.gotP = TRUE, !.firstP = ids]

\* w._initialized = True and the two bounds on the seen-sets, the last
\* statements of the iteration
UserFinish(job) ==
  {[job EXCEPT !.initialized = TRUE, !.seen_tids = T, !.seen_pids = P] :
     T \in Trimmed(job.seen_tids, UserCap, UserKeep),
     P \in Trimmed(job.seen_pids, UserCap, UserKeep)}

\* after the threads: the posts fetch if w.mode == "all", else the end
UserAfterThreads(p, job) ==
  IF job.mode = "all"
    THEN /\ poll' = [p EXCEPT !.pc = "posts", !.rows = <<>>]
         /\ w' = job
    ELSE /\ poll' = [p EXCEPT !.pc = "done", !.rows = <<>>]
         /\ w' \in UserFinish(job)

\* the threads fetch: without data nothing, before the first finished iteration
\* the seeding, afterwards the sorted list the loop goes through
PollUser ==
  /\ CanPoll("user")
  /\ wn' = [wn EXCEPT !.polls = @ + 1]
  /\ \E resp \in UserResponses :
       IF ~ HasData(resp)
         THEN /\ UserAfterThreads(Sleeping, w)
              /\ wlog' = wlog
         ELSE IF ~ w.initialized
           THEN /\ UserAfterThreads(Sleeping,
                                    [w EXCEPT !.seen_tids = @ \cup IdsOf(AsList(resp))])
                /\ wlog' = FirstThreads(wlog, IdsOf(AsList(resp)))
           ELSE /\ poll' = [Sleeping EXCEPT !.pc = "emit",
                                            !.rows = SortedByDateline(AsList(resp))]
                /\ w' = w
                /\ wlog' = FirstThreads(wlog, IdsOf(AsList(resp)))
  /\ UNCHANGED notWatch

\* the loop over the threads up to and including the next callback
UserEmitThreads ==
  /\ poll.pc = "emit" /\ w.kind = "user"
  /\ LET rest == SkipSeen(poll.rows, w.seen_tids)
     IN IF rest = <<>>
          THEN /\ UserAfterThreads(poll, w)
               /\ UNCHANGED wlog
          ELSE /\ w' = [w EXCEPT !.seen_tids = @ \cup {Head(rest).id}]
               /\ wlog' = Noted(wlog, "user_thread", Head(rest).id)
               /\ \E raises \in BOOLEAN :
                    poll' = [poll EXCEPT
                      !.pc = IF raises THEN "raised" ELSE "emit",
                      !.rows = IF raises THEN <<>> ELSE Tail(rest),
                      !.ev = Append(@, Event("user_thread", Head(rest).id,
                                             Head(rest).dateline))]
  /\ UNCHANGED <<wn, notWatch>>

\* the posts fetch of mode "all": without data the end of the iteration
UserPosts ==
  /\ poll.pc = "posts" /\ w.kind = "user"
  /\ \E resp \in UserResponses :
       IF ~ HasData(resp)
         THEN /\ poll' = [poll EXCEPT !.pc = "done"]
              /\ w' \in UserFinish(w)
              /\ wlog' = wlog
         ELSE /\ poll' = [poll EXCEPT !.pc = "emit_p",
                                      !.rows = SortedByDateline(AsList(resp))]
              /\ wlog' = FirstPosts(wlog, IdsOf(AsList(resp)))
              /\ w' = w
  /\ UNCHANGED <<wn, notWatch>>

\* the loop over the posts: before the first finished iteration it only adds
\* the pids; afterwards it runs up to and including the next callback
UserEmitPosts ==
  /\ poll.pc = "emit_p" /\ w.kind = "user"
  /\ IF ~ w.initialized
       THEN /\ poll' = [poll EXCEPT !.pc = "done", !.rows = <<>>]
            /\ w' \in UserFinish([w EXCEPT !.seen_pids = @ \cup IdsOf(poll.rows)])
            /\ UNCHANGED wlog
       ELSE LET rest == SkipSeen(poll.rows, w.seen_pids)
            IN IF rest = <<>>
                 THEN /\ poll' = [poll EXCEPT !.pc = "done", !.rows = <<>>]
                      /\ w' \in UserFinish(w)
                      /\ UNCHANGED wlog
                 ELSE /\ w' = [w EXCEPT !.seen_pids = @ \cup {Head(rest).id}]
                      /\ wlog' = Noted(wlog, "user_post", Head(rest).id)
                      /\ \E raises \in BOOLEAN :
                           poll' = [poll EXCEPT
                             !.pc = IF raises THEN "raised" ELSE "emit_p",
                             !.rows = IF raises THEN <<>> ELSE Tail(rest),
                             !.ev = Append(@, Event("user_post", Head(rest).id,
                                                    Head(rest).dateline))]
  /\ UNCHANGED <<wn, notWatch>>

---------------------------------------------------------------------------
(* HFWatcher._poll_keyword *)

\* `time.time() - dateline > 3600`: the age in seconds above which a thread's
\* posts are not scanned
FRESHNESS == 3600

\* a _KeywordWatch after watch_keyword(keyword, callback, fids=fids)
NewKeywordWatch(fids) == NewWatch("keyword", "") @@ [fids |-> fids]

\* the fids a job can be registered with: none, one forum, two forums
FidLists == {<<>>} \cup {<<1>>} \cup (IF MaxFids > 1 THEN {<<1, 2>>} ELSE {})

\* a thread of the response: its tid, time.time() - dateline, and whether
\* w.pattern.search(subject) finds the keyword; a post: its pid, and whether
\* w.pattern.search(message) finds it
KwThreads == [id : Ids, age : {FRESHNESS, FRESHNESS + 1}, match : BOOLEAN]
KwPosts   == [id : Ids, match : BOOLEAN]

\* the responses to a read of records out of recs, at most n in a list
ResponsesOver(recs, n) ==
  [kind : {"none", "nokey", "null"}, val : {<<>>}]
    \cup [kind : {"list"}, val : UNION {[1..m -> recs] : m \in 0..n}]
    \cup [kind : {"dict"}, val : recs]

\* what the loop decided about the last record it looked at, and the event it
\* awaited the callback with
NoDec ==
  [kind |-> "none", id |-> 0, tid |-> 0, match |-> FALSE, fresh |-> FALSE,
   seenT |-> FALSE, seenP |-> FALSE, tested |-> FALSE, fetched |-> FALSE,
   emitted |-> FALSE, ev |-> <<>>]

\* the locals of a _poll_keyword iteration
KwIdle ==
  Sleeping @@ [fids |-> <<>>, prows |-> <<>>, cur |-> 0, fetches |-> 0, dec |-> NoDec]

\* a job that falls back to forum 1 when it has no fids
FidsOrDefault(job) == IF job.fids = <<>> THEN <<1>> ELSE job.fids

\* `fids = w.fids if w.fids else []`
Fids(job) == job.fids

\* one set for thread ids and post ids
SeenAny(job, pid) == pid \in job.seen_pids \cup job.seen_tids

\* `tid in w._seen_tids` and `pid in w._seen_pids`
SeenTid(job, tid) == tid \in job.seen_tids
SeenPid(job, pid) == pid \in job.seen_pids

\* the keyword_match event for a subject (pid None) or for a post
KwEvent(tid, pid) == [event |-> "keyword_match", tid |-> tid, pid |-> pid]

\* the iteration starts: without fids it logs a warning and returns
PollKeyword ==
  /\ CanPoll("keyword")
  /\ wn' = [wn EXCEPT !.polls = @ + 1]
  /\ IF Fids(w) = <<>>
       THEN poll' = [KwIdle EXCEPT !.pc = "done"]
       ELSE poll' = [KwIdle EXCEPT !.pc = "threads", !.fids = Fids(w)]
  /\ UNCHANGED <<w, wlog, notWatch>>

\* `for fid in fids`: the threads fetch of the next forum; after the last
\* forum both seen-sets are bounded
KeywordThreads ==
  /\ poll.pc = "threads" /\ w.kind = "keyword"
  /\ IF poll.fids = <<>>
       THEN /\ \E T \in Trimmed(w.seen_tids, KeywordCap, KeywordKeep),
                  P \in Trimmed(w.seen_pids, KeywordCap, KeywordKeep) :
                 w' = [w EXCEPT !.seen_tids = T, !.seen_pids = P]
            /\ poll' = [poll EXCEPT !.pc = "done"]
       ELSE /\ \E resp \in ResponsesOver(KwThreads, MaxRows) :
                 poll' = [poll EXCEPT
                   !.fids = Tail(@), !.fetches = @ + 1,
                   !.first = IF @ = "" THEN FirstFetch(resp.kind) ELSE @,
                   !.pc = IF HasData(resp) THEN "scan" ELSE "threads",
                   !.rows = IF HasData(resp) THEN AsList(resp) ELSE <<>>]
            /\ w' = w
  /\ UNCHANGED <<wlog, wn, notWatch>>

\* `for t in (threads or [])`: one thread of the response
KeywordScan ==
  /\ poll.pc = "scan" /\ w.kind = "keyword"
  /\ IF poll.rows = <<>>
       THEN /\ poll' = [poll EXCEPT !.pc = "threads"]
            /\ UNCHANGED <<w, wlog>>
       ELSE LET t == Head(poll.rows)
                d == [NoDec EXCEPT !.kind = "thread", !.id = t.id, !.tid = t.id,
                        !.match = t.match, !.fresh = ~ (t.age > FRESHNESS),
                        !.seenT = t.id \in w.seen_tids, !.seenP = t.id \in w.seen_pids]
            IN IF t.id = 0 \/ SeenTid(w, t.id)
                 THEN /\ poll' = [poll EXCEPT !.rows = Tail(@), !.dec = d]
                      /\ UNCHANGED <<w, wlog>>
                 ELSE IF t.match
                   THEN /\ w' = [w EXCEPT !.seen_tids = @ \cup {t.id}]
                        /\ wlog' = Noted(wlog, "keyword_subject", t.id)
                        /\ \E raises \in BOOLEAN :
                             poll' = [poll EXCEPT
                               !.pc = IF raises THEN "raised" ELSE "scan",
                               !.rows = Tail(@),
                               !.dec = [d EXCEPT !.emitted = TRUE,
                                                 !.ev = KwEvent(t.id, NoPid)]]
                   ELSE IF t.age > FRESHNESS
                     THEN /\ w' = [w EXCEPT !.seen_tids = @ \cup {t.id}]
                          /\ poll' = [poll EXCEPT !.rows = Tail(@), !.dec = d]
                          /\ wlog' = wlog
                     ELSE /\ \E resp \in ResponsesOver(KwPosts, MaxPosts) :
                               poll' = [poll EXCEPT
                                 !.rows = Tail(@), !.fetches = @ + 1,
                                 !.dec = [d EXCEPT !.fetched = TRUE],
                                 !.cur = t.id,
                                 !.pc = IF HasData(resp) THEN "kposts" ELSE "scan",
                                 !.prows = IF HasData(resp) THEN AsList(resp) ELSE <<>>]
                          /\ UNCHANGED <<w, wlog>>
  /\ UNCHANGED <<wn, notWatch>>

\* `for post in (posts or [])`: one post of the scanned thread; after the last
\* one the thread is marked seen
KeywordPosts ==
  /\ poll.pc = "kposts" /\ w.kind = "keyword"
  /\ IF poll.prows = <<>>
       THEN /\ w' = [w EXCEPT !.seen_tids = @ \cup {poll.cur}]
            /\ poll' = [poll EXCEPT !.pc = "scan"]
            /\ wlog' = wlog
       ELSE LET p == Head(poll.prows)
                d == [NoDec EXCEPT !.kind = "post", !.id = p.id, !.tid = poll.cur,
                        !.match = p.match,
                        !.seenT = p.id \in w.seen_tids, !.seenP = p.id \in w.seen_pids]
            IN IF SeenPid(w, p.id)
                 THEN /\ poll' = [poll EXCEPT !.prows = Tail(@), !.dec = d]
                      /\ UNCHANGED <<w, wlog>>
                 ELSE IF p.match
                   THEN /\ w' = [w EXCEPT !.seen_pids = @ \cup {p.id}]
                        /\ wlog' = wlog
                        /\ \E raises \in BOOLEAN :
                             poll' = [poll EXCEPT
                               !.pc = IF raises THEN "raised" ELSE "kposts",
                               !.prows = Tail(@),
                               !.dec = [d EXCEPT !.tested = TRUE, !.emitted = TRUE,
                                                 !.ev = KwEvent(poll.cur, p.id)]]
                   ELSE /\ poll' = [poll EXCEPT !.prows = Tail(@),
                                      !.dec = [d EXCEPT !.tested = TRUE]]
                        /\ UNCHANGED <<w, wlog>>
  /\ UNCHANGED <<wn, notWatch>>

---------------------------------------------------------------------------
(* HFWatcher._poll_bytes *)

\* a _BytesWatch after watch_bytes(callback): _my_uid is None
NewBytesWatch == NewWatch("bytes", "") @@ [my_uid |-> PyNone, seen_ids |-> {}]

\* the locals of a _poll_bytes iteration, and whether it asked for the uid
\* and for the transfers
BytesIdle == Sleeping @@ [me |-> FALSE, fetched |-> FALSE, uid0 |-> PyNone]

\* what the read of {"me": {"uid": True}} returns: None, a dict without "me",
\* "me" holding None, an empty list, or a list or dict whose uid is
\* int(me_data.get("uid") or 0)
MeResponses ==
  [kind : {"none", "nokey", "null", "empty"}, uid : {0}]
    \cup [kind : {"list", "dict"}, uid : 0..MaxUid]

\* a uid is stored whatever it is
StoresAnyUid(uid_val) == TRUE

\* `if not uid_val: return`, else `w._my_uid = uid_val`
StoresUid(uid_val) == uid_val # 0

\* the "id" of a transfer as the API sends it (a missing one reads ""), and
\* its dateline
TxVals    == {PyStr(""), PyInt(0), PyInt(1), PyStr("1"), PyInt(2)}
TxRecords == [id : TxVals, dateline : Datelines]

\* txid = str(tx.get("id", ""))
TxId(tx) == Str(tx.id)

\* the txids of the records that have one: `if txid: w._seen_ids.add(txid)`
TxIdsOf(rows) == {TxId(rows[i]) : i \in 1..Len(rows)} \ {""}

\* no txid is taken for seen
TxSeenNever(job, txid) == FALSE

\* `txid in w._seen_ids`
TxSeen(job, txid) == txid \in job.seen_ids

\* the loop `for tx in sorted(...): if not txid or txid in seen: continue` up
\* to the first transfer it does not skip
RECURSIVE SkipSeenTx(_, _)
SkipSeenTx(rows, job) ==
  IF rows = <<>> \/ (TxId(Head(rows)) # "" /\ ~ TxSeen(job, TxId(Head(rows)))) THEN rows
  ELSE SkipSeenTx(Tail(rows), job)

\* the iteration starts: an unresolved uid is asked for, and the iteration
\* ends there unless a uid came back
PollBytes ==
  /\ CanPoll("bytes")
  /\ wn' = [wn EXCEPT !.polls = @ + 1]
  /\ IF w.my_uid = PyNone
       THEN \E me \in MeResponses :
              LET it == [BytesIdle EXCEPT !.me = TRUE, !.first = FirstFetch(me.kind)]
              IN IF me.kind \in {"none", "nokey"}
                   THEN poll' = [it EXCEPT !.pc = "done"] /\ w' = w
                   ELSE IF me.kind = "null"
                     THEN poll' = [it EXCEPT !.pc = "raised"] /\ w' = w
                     ELSE IF ~ StoresUid(me.uid)
                       THEN poll' = [it EXCEPT !.pc = "done"] /\ w' = w
                       ELSE /\ poll' = [it EXCEPT !.pc = "txs"]
                            /\ w' = [w EXCEPT !.my_uid = PyInt(me.uid)]
       ELSE /\ poll' = [BytesIdle EXCEPT !.pc = "txs", !.uid0 = w.my_uid]
            /\ w' = w
  /\ UNCHANGED <<wlog, notWatch>>

\* the transfers fetch, the cold start, and the sorted list the loop goes
\* through
BytesFetch ==
  /\ poll.pc = "txs" /\ w.kind = "bytes"
  /\ \E resp \in ResponsesOver(TxRecords, MaxRows) :
       IF ~ HasData(resp)
         THEN /\ poll' = [poll EXCEPT !.pc = "done", !.fetched = TRUE,
                                      !.first = IF @ = "" THEN FirstFetch(resp.kind) ELSE @]
              /\ w' = w
         ELSE IF ~ w.initialized
           THEN /\ w' = [w EXCEPT !.seen_ids = @ \cup TxIdsOf(AsList(resp)),
                                  !.initialized = TRUE]
                /\ poll' = [poll EXCEPT !.pc = "done", !.fetched = TRUE, !.got = TRUE,
                                        !.first = IF @ = "" THEN FirstFetch(resp.kind) ELSE @,
                                        !.resp = AsList(resp)]
           ELSE /\ poll' = [poll EXCEPT !.pc = "emit", !.fetched = TRUE, !.got = TRUE,
                                        !.init0 = TRUE,
                                        !.first = IF @ = "" THEN FirstFetch(resp.kind) ELSE @,
                                        !.rows = SortedByDateline(AsList(resp)),
                                        !.resp = AsList(resp),
                                        !.seen0 = w.seen_ids]
                /\ w' = w
  /\ UNCHANGED <<wlog, wn, notWatch>>

\* the loop up to and including the next `await w.callback(...)`, which returns
\* or raises
BytesEmit ==
  /\ poll.pc = "emit" /\ w.kind = "bytes"
  /\ LET rest == SkipSeenTx(poll.rows, w)
     IN IF rest = <<>>
          THEN /\ poll' = [poll EXCEPT !.pc = "done", !.rows = <<>>]
               /\ w' = w
          ELSE /\ w' = [w EXCEPT !.seen_ids = @ \cup {TxId(Head(rest))}]
               /\ \E raises \in BOOLEAN :
                    poll' = [poll EXCEPT
                      !.pc = IF raises THEN "raised" ELSE "emit",
                      !.rows = IF raises THEN <<>> ELSE Tail(rest),
                      !.ev = Append(@, Event("bytes_received", TxId(Head(rest)),
                                             Head(rest).dateline))]
  /\ UNCHANGED <<wlog, wn, notWatch>>

---------------------------------------------------------------------------
(* HFWatcher: the loop around the polls, and the process *)

\* the event of the callback that raised, when the iteration ended in one: the
\* last event of the iteration, for a keyword watch by the set its identifier
\* is kept in (of a process it is kept which callback raised first)
RaisedFor ==
  IF w.kind = "keyword"
    THEN IF poll.dec.emitted
           THEN {<<IF poll.dec.kind = "thread" THEN "keyword_subject" ELSE "keyword_post",
                   poll.dec.id>>}
           ELSE {}
    ELSE IF poll.ev = <<>> THEN {}
         ELSE {<<poll.ev[Len(poll.ev)].event, poll.ev[Len(poll.ev)].id>>}

\* the iteration is over (it returned or it raised): await asyncio.sleep(w.interval)
PollEnd ==
  /\ poll.pc \in {"done", "raised"}
  /\ poll' = Sleeping
  /\ wlog' = IF poll.pc = "raised" /\ wlog.failed = {}
               THEN [wlog EXCEPT !.failed = RaisedFor]
               ELSE wlog
  /\ UNCHANGED <<w, wn, notWatch>>

\* the process ends and a new one registers the same watch: the job's fields
\* are those of a new dataclass
Restart ==
  /\ wn.polls > 0 /\ wn.restarts < MaxRestarts
  /\ w' = NewWatch(w.kind, w.mode)
  /\ poll' = Sleeping
  /\ wlog' = [wlog EXCEPT !.once = {}, !.firstT = {}, !.gotT = FALSE,
                          !.firstP = {}, !.gotP = FALSE, !.failed = {}]
  /\ wn' = [wn EXCEPT !.restarts = @ + 1]
  /\ UNCHANGED notWatch

\* a process with one watch registered: watch_thread, watch_forum, or
\* watch_user in one of its modes
InitWatch(kind, modes) ==
  /\ StoreOff
  /\ CacheOff
  /\ LoopOff
  /\ ClientOff
  /\ \E mode \in modes : w = NewWatch(kind, mode)
  /\ poll = Sleeping
  /\ wlog = NoEvents
  /\ wn = [polls |-> 0, restarts |-> 0]

InitThread == InitWatch("thread", {""})
InitForum  == InitWatch("forum", {""})
InitUser   == InitWatch("user", {"threads", "all"})

NextThread == PollThread \/ ThreadPosts \/ ThreadEmit \/ PollEnd \/ Restart
NextForum  == PollForum \/ ForumEmit \/ PollEnd \/ Restart
NextUser   ==
  \/ PollUser \/ UserEmitThreads \/ UserPosts \/ UserEmitPosts
  \/ PollEnd \/ Restart

SpecThread == InitThread /\ [][NextThread]_vars
SpecForum  == InitForum /\ [][NextForum]_vars
SpecUser   == InitUser /\ [][NextUser]_vars

\* a process with one keyword watch registered, with or without fids
InitKeyword ==
  /\ StoreOff
  /\ CacheOff
  /\ LoopOff
  /\ ClientOff
  /\ \E fids \in FidLists : w = NewKeywordWatch(fids)
  /\ poll = Sleeping
  /\ wlog = NoEvents
  /\ wn = [polls |-> 0, restarts |-> 0]

NextKeyword == PollKeyword \/ KeywordThreads \/ KeywordScan \/ KeywordPosts \/ PollEnd

SpecKeyword == InitKeyword /\ [][NextKeyword]_vars

\* a process with one bytes watch registered
InitBytes ==
  /\ StoreOff
  /\ CacheOff
  /\ LoopOff
  /\ ClientOff
  /\ w = NewBytesWatch
  /\ poll = Sleeping
  /\ wlog = NoEvents
  /\ wn = [polls |-> 0, restarts |-> 0]

NextBytes == PollBytes \/ BytesFetch \/ BytesEmit \/ PollEnd

SpecBytes == InitBytes /\ [][NextBytes]_vars

\* one process with one watch of any kind, polled until the process ends
InitPolls == InitThread \/ InitForum \/ InitUser \/ InitKeyword \/ InitBytes

NextPolls ==
  \/ PollThread \/ ThreadPosts \/ ThreadEmit
  \/ PollForum \/ ForumEmit
  \/ PollUser \/ UserEmitThreads \/ UserPosts \/ UserEmitPosts
  \/ PollKeyword \/ KeywordThreads \/ KeywordScan \/ KeywordPosts
  \/ PollBytes \/ BytesFetch \/ BytesEmit
  \/ PollEnd

SpecPolls == InitPolls /\ [][NextPolls]_vars

---------------------------------------------------------------------------
(* HFWatcher: the claims *)

\* the ids the events of this iteration were emitted for
Emitted == {poll.ev[i].id : i \in 1..Len(poll.ev)}

\* no id has two events in this iteration
OncePerId == \A i, j \in 1..Len(poll.ev) : poll.ev[i].id = poll.ev[j].id => i = j

\* C15: the first successful poll of a forum watch emits nothing and puts every
\* returned thread id in the seen-set; every later poll emits one new_thread
\* event for each returned id that was not in the seen-set and none for the
\* others (all of them once the iteration has run to its end; an iteration that
\* a raising callback cut short has emitted for the first of them only).
C15_ForumSeedsThenOnePerNewThread ==
  (w.kind = "forum" /\ poll.pc \in {"done", "raised"} /\ poll.got) =>
    IF ~ poll.init0
      THEN /\ poll.ev = <<>>
           /\ poll.pc = "done"
           /\ IdsOf(poll.resp) \subseteq w.seen_tids
           /\ w.initialized
      ELSE /\ \A i \in 1..Len(poll.ev) : poll.ev[i].event = "new_thread"
           /\ OncePerId
           /\ Emitted \subseteq IdsOf(poll.resp) \ poll.seen0
           /\ poll.pc = "done" => Emitted = IdsOf(poll.resp) \ poll.seen0

\* a later poll returned a thread that was seeded and one that was not, and
\* emitted one event
C15_Witness ==
  /\ w.kind = "forum" /\ poll.pc = "done" /\ poll.init0
  /\ Len(poll.resp) = 2 /\ Len(poll.ev) = 1
  /\ IdsOf(poll.resp) \cap poll.seen0 # {}
  /\ wlog.cold # {} /\ wn.restarts = 0

\* C16: within one process lifetime a job emits no identifier in two events of
\* the same kind, also after its seen-set was trimmed: the callback is not
\* called for an identifier it was called for before.
C16_NoIdentifierEmittedTwice ==
  [][Len(poll'.ev) = Len(poll.ev) + 1 =>
       LET e == poll'.ev[Len(poll'.ev)]
       IN e.id # NoPid => <<e.event, e.id>> \notin wlog.once]_vars

\* C17: with restarts of the process, every item a poll returned has been
\* notified by the time the poll is over, unless it was there at the first
\* cold start: what appeared while the process was down is notified.
C17_NotifiedAcrossRestarts ==
  (w.kind = "forum" /\ poll.pc = "done" /\ poll.got) =>
    \A id \in IdsOf(poll.resp) : <<"new_thread", id>> \in wlog.notified \cup wlog.cold


\* the replies of the fetched page that the claim has emitted: dated after the
\* previous baseline, pid not in the seen-set
NewReplies ==
  {poll.resp[i].id : i \in {j \in 1..Len(poll.resp) :
      poll.resp[j].dateline > poll.base0 /\ poll.resp[j].id \notin poll.seen0}}

C18_EventsInDatelineOrder ==
  \A i, j \in 1..Len(poll.ev) : i < j => poll.ev[i].dateline <= poll.ev[j].dateline

\* C20: a user watch emits no user_thread event for a thread that its first
\* successful threads fetch returned, and no user_post event for a post that
\* its first successful posts fetch returned.
C20_UserSubStreamsColdStart ==
  w.kind = "user" =>
    /\ \A id \in wlog.firstT : <<"user_thread", id>> \notin wlog.once
    /\ \A id \in wlog.firstP : <<"user_post", id>> \notin wlog.once

---------------------------------------------------------------------------
(* HFWatcher._poll_keyword: the claims *)

\* the loop is about to look at a thread, or at a post of the scanned thread
AtThread == w.kind = "keyword" /\ poll.pc = "scan" /\ poll.rows # <<>>
AtPost   == w.kind = "keyword" /\ poll.pc = "kposts" /\ poll.prows # <<>>

\* C21: a thread that is not in the thread-seen-set and whose subject matches
\* gets one keyword_match event with pid None and is marked seen without a
\* posts fetch, and no subject event is emitted for a thread that had one
\* before.
C21_SubjectMatchOnceEver ==
  [][AtThread =>
       LET t == Head(poll.rows)
           d == poll'.dec
       IN /\ (t.id # 0 /\ t.id \notin w.seen_tids /\ t.match) =>
               /\ d.emitted /\ d.ev = KwEvent(t.id, NoPid)
               /\ t.id \in w'.seen_tids
               /\ poll'.fetches = poll.fetches
          /\ d.emitted => <<"keyword_subject", t.id>> \notin wlog.once]_vars

\* C22: the posts of a fresh thread whose subject does not match are fetched
\* whenever the thread is returned, scanned before or not, and a post of it
\* that holds the keyword and is not in the post-seen-set gets a keyword_match
\* event with the thread's tid and its pid.
C22_LaterPostInFreshThreadIsFound ==
  [][/\ AtThread =>
          LET t == Head(poll.rows)
          IN (t.id # 0 /\ ~ t.match /\ ~ (t.age > FRESHNESS)) => poll'.dec.fetched
     /\ AtPost =>
          LET p == Head(poll.prows)
          IN (p.match /\ p.id \notin w.seen_pids) =>
               poll'.dec.emitted /\ poll'.dec.ev = KwEvent(poll.cur, p.id)]_vars

\* C23: a subject event is emitted exactly for the threads that match and are
\* not in the thread-seen-set, a post event exactly for the tested posts that
\* match and are not in the post-seen-set: membership of the same number in
\* the other set changes nothing.
C23_SeenSetsAreDisjointNamespaces ==
  w.kind = "keyword" =>
    /\ poll.pc # "sleep" /\ poll.dec.kind = "thread" =>
         (poll.dec.emitted <=> (poll.dec.id # 0 /\ ~ poll.dec.seenT /\ poll.dec.match))
    /\ poll.pc # "sleep" /\ poll.dec.kind = "post" =>
         (poll.dec.emitted <=> (~ poll.dec.seenP /\ poll.dec.match))

\* a post event was emitted for a pid that is a seen thread id, a thread which
\* had its own subject event
C23_Witness ==
  /\ w.kind = "keyword" /\ poll.pc # "sleep"
  /\ poll.dec.kind = "post" /\ poll.dec.emitted /\ poll.dec.seenT
  /\ poll.dec.ev.pid = poll.dec.id
  /\ <<"keyword_subject", poll.dec.id>> \in wlog.once

\* C24: a post that was tested against the pattern is in the post-seen-set
\* afterwards, matching or not.
C24_TestedPostsAreMarkedSeen ==
  [][AtPost => (poll'.dec.tested => Head(poll.prows).id \in w'.seen_pids)]_vars

\* C25: a keyword watch without fids makes no fetch, emits nothing, does not
\* raise and keeps its state, in every iteration.
C25_NoFidsSkipsTheCycle ==
  (w.kind = "keyword" /\ w.fids = <<>>) =>
    /\ poll.pc \in {"sleep", "done"}
    /\ poll.pc = "done" => (poll.fetches = 0 /\ poll.dec = NoDec)
    /\ w = NewKeywordWatch(<<>>)
    /\ wlog = NoEvents

\* the second iteration of such a watch is over
C25_Witness ==
  w.kind = "keyword" /\ w.fids = <<>> /\ poll.pc = "done" /\ wn.polls = 2

---------------------------------------------------------------------------
(* HFWatcher._poll_bytes: the claims *)

C27_BytesSeedsThenOnePerNewTransfer ==
  (w.kind = "bytes" /\ poll.pc \in {"done", "raised"} /\ poll.got) =>
    /\ w.my_uid # PyNone
    /\ IF ~ poll.init0
         THEN /\ poll.ev = <<>>
              /\ poll.pc = "done"
              /\ TxIdsOf(poll.resp) \subseteq w.seen_ids
              /\ w.initialized
         ELSE /\ \A i \in 1..Len(poll.ev) : poll.ev[i].event = "bytes_received"
              /\ \A i, j \in 1..Len(poll.ev) :
                   /\ poll.ev[i].id = poll.ev[j].id => i = j
                   /\ i < j => poll.ev[i].dateline <= poll.ev[j].dateline
              /\ {poll.ev[i].id : i \in 1..Len(poll.ev)} \subseteq
                   TxIdsOf(poll.resp) \ poll.seen0
              /\ poll.pc = "done" =>
                   {poll.ev[i].id : i \in 1..Len(poll.ev)} = TxIdsOf(poll.resp) \ poll.seen0

\* a later poll returned a seeded transfer and two new ones, the newer first,
\* and emitted the older first
C27_Witness ==
  /\ w.kind = "bytes" /\ poll.pc = "done" /\ poll.init0
  /\ Len(poll.resp) = 2 /\ Len(poll.ev) = 2
  /\ poll.resp[1].dateline > poll.resp[2].dateline
  /\ poll.seen0 # {}

---------------------------------------------------------------------------
(* HFWatcher.start, stop and the loops of the jobs *)

\* a loop that never sees the flag cleared
WhileTrue == TRUE

\* `while self._running`
WhileRunning == sup.running

\* start(): self._running = True, one task per registered job, then
\* `await asyncio.gather(*tasks)`
Start ==
  /\ sup.start = "idle"
  /\ sup' = [sup EXCEPT !.running = TRUE, !.start = "gather"]
  /\ loops' = [j \in Jobs |-> [NoTask EXCEPT !.pc = "top"]]
  /\ UNCHANGED notLoop

\* stop(), called while start() is running: self._running = False
Stop ==
  /\ sup.start = "gather" /\ ~ sup.stopped
  /\ sup' = [sup EXCEPT !.running = FALSE, !.stopped = TRUE]
  /\ UNCHANGED <<loops, notLoop>>

\* the test of the while loop: the next iteration starts, or the loop returns
LoopTop(j) ==
  /\ loops[j].pc = "top"
  /\ IF WhileRunning
       THEN /\ loops[j].n < MaxIters
            /\ loops' = [loops EXCEPT ![j] = [pc |-> "poll", n |-> @.n + 1,
                                              err |-> FALSE, tag |-> ""]]
       ELSE loops' = [loops EXCEPT ![j].pc = "exit"]
  /\ UNCHANGED <<sup, notLoop>>

\* `await self._poll_...(w)` returns
PollReturns(j) ==
  /\ loops[j].pc = "poll"
  /\ loops' = [loops EXCEPT ![j].pc = "sleep"]
  /\ UNCHANGED <<sup, notLoop>>

\* it raises an Exception: `if self._on_error: await self._on_error(kind, e)`
PollRaises(j) ==
  /\ loops[j].pc = "poll"
  /\ loops' = [loops EXCEPT ![j].err = TRUE,
                            ![j].pc = IF sup.sink THEN "error" ELSE "sleep",
                            ![j].tag = IF sup.sink THEN KindOf(j) ELSE ""]
  /\ UNCHANGED <<sup, notLoop>>

\* the sink returns
SinkReturns(j) ==
  /\ loops[j].pc = "error"
  /\ loops' = [loops EXCEPT ![j].pc = "sleep"]
  /\ UNCHANGED <<sup, notLoop>>

\* the sink raises: the call is in the except clause, outside any try, so the
\* exception ends the task
SinkRaises(j) ==
  /\ loops[j].pc = "error"
  /\ loops' = [loops EXCEPT ![j].pc = "dead"]
  /\ UNCHANGED <<sup, notLoop>>

\* `await asyncio.sleep(w.interval)` is over
Wake(j) ==
  /\ loops[j].pc = "sleep"
  /\ loops' = [loops EXCEPT ![j].pc = "top"]
  /\ UNCHANGED <<sup, notLoop>>

\* gather: every task has returned, and start() returns
GatherReturns ==
  /\ sup.start = "gather"
  /\ \A j \in Jobs : loops[j].pc = "exit"
  /\ sup' = [sup EXCEPT !.start = "returned"]
  /\ UNCHANGED <<loops, notLoop>>

\* gather: a task has ended with an exception, which start() raises (it is
\* no CancelledError); the other tasks are left running
GatherRaises ==
  /\ sup.start = "gather"
  /\ \E j \in Jobs : loops[j].pc = "dead"
  /\ sup' = [sup EXCEPT !.start = "raised"]
  /\ UNCHANGED <<loops, notLoop>>

\* a watcher with its jobs registered, with or without an on_error sink
InitLoops ==
  /\ StoreOff
  /\ CacheOff
  /\ WatchOff
  /\ ClientOff
  /\ \E sink \in BOOLEAN : sup = NewWatcher(sink)
  /\ loops = [j \in Jobs |-> NoTask]

LoopStep(j) ==
  \/ LoopTop(j) \/ PollReturns(j) \/ PollRaises(j)
  \/ SinkReturns(j) \/ SinkRaises(j) \/ Wake(j)

NextLoops ==
  \/ Start \/ Stop \/ GatherReturns \/ GatherRaises
  \/ \E j \in Jobs : LoopStep(j)

SpecLoops == InitLoops /\ [][NextLoops]_vars

\* every task of the event loop gets to run, and fetches, callbacks and
\* sleeps come back
SpecLoopsFair ==
  /\ SpecLoops
  /\ \A j \in Jobs : WF_vars(LoopStep(j))
  /\ WF_vars(GatherReturns \/ GatherRaises)

---------------------------------------------------------------------------
(* HFClient._raw_post and the rate-limit state *)

\* _RATE_LIMIT_BACKOFF
RATE_LIMIT_BACKOFF == 600

\* a token is also limited at the very end of its window
IsRateLimitedOrAt(token) == net.now <= net.until[token]

\* is_rate_limited(token): time.time() < _rate_limited_until.get(token, 0)
IsRateLimited(token) == net.now < net.until[token]

\* _mark_rate_limited(token)
MarkRateLimited(token) ==
  [net EXCEPT !.until[token] = net.now + RATE_LIMIT_BACKOFF,
              !.marks = @ \cup {<<token, net.now>>}]

\* _raw_post is called: a limited token returns None at once, otherwise the
\* POST is sent
RawPostEnter(r) ==
  /\ reqs[r].pc = "idle" /\ net.calls < MaxCalls
  /\ \E token \in Tokens :
       IF IsRateLimited(token)
         THEN /\ reqs' = [reqs EXCEPT ![r] = [pc |-> "ret", token |-> token,
                                             issued |-> FALSE, ret |-> "None"]]
              /\ net' = [net EXCEPT !.calls = @ + 1, !.skipped = @ + 1]
         ELSE /\ reqs' = [reqs EXCEPT ![r] = [pc |-> "post", token |-> token,
                                             issued |-> TRUE, ret |-> ""]]
              /\ net' = [net EXCEPT !.calls = @ + 1, !.posts = @ + 1]
  /\ UNCHANGED notClient

\* the POST is over: it timed out or failed (None), or a response came, with
\* or without MAX_HOURLY_CALLS_EXCEEDED in its content
RawPostResponse(r) ==
  /\ reqs[r].pc = "post"
  /\ \E out \in {"timeout", "error", "limit", "ok"} :
       /\ reqs' = [reqs EXCEPT ![r].pc = "ret",
                    ![r].ret = IF out \in {"timeout", "error"} THEN "None" ELSE out]
       /\ net' = IF out = "limit" THEN MarkRateLimited(reqs[r].token) ELSE net
  /\ UNCHANGED notClient

\* the caller has its result
RawPostReturn(r) ==
  /\ reqs[r].pc = "ret"
  /\ reqs' = [reqs EXCEPT ![r] = NoRequest]
  /\ UNCHANGED <<net, notClient>>

\* time.time() advances
WallTick ==
  /\ net.now < TickStep * (MaxWallTicks + 1)
  /\ net' = [net EXCEPT !.now = @ + TickStep]
  /\ UNCHANGED <<reqs, notClient>>

InitClient ==
  /\ StoreOff
  /\ CacheOff
  /\ WatchOff
  /\ LoopOff
  /\ ClientOff

NextClient ==
  \/ \E r \in Requesters : RawPostEnter(r) \/ RawPostResponse(r) \/ RawPostReturn(r)
  \/ WallTick

SpecClient == InitClient /\ [][NextClient]_vars

---------------------------------------------------------------------------
(* HFWatcher loops and HFClient: the claims *)

\* C28: an iteration that raised has its exception caught and passed to the
\* on_error sink, if there is one, with the job's kind; the loop goes on to
\* its sleep and its next iteration; and no step of one job's loop changes
\* the loop of another job.
C28_ErrorsDoNotEndAnyLoop ==
  /\ [](\A j \in Jobs :
          /\ loops[j].pc # "dead"
          /\ loops[j].err =>
               /\ loops[j].pc \in {"error", "sleep", "top", "exit"}
               /\ loops[j].tag = IF sup.sink THEN KindOf(j) ELSE "")
  /\ [][\A j, k \in Jobs :
          (j # k /\ loops'[j] # loops[j] /\ sup' = sup) => loops'[k] = loops[k]]_vars

\* C29: stop() changes no loop; a loop that saw the flag cleared starts no
\* iteration and stays returned; and once stop() was called every loop ends
\* and start() is over.
C29_StopIsCooperative ==
  /\ [][/\ (sup'.stopped /\ ~ sup.stopped) => loops' = loops
        /\ \A j \in Jobs :
             /\ (loops[j].pc = "top" /\ ~ sup.running) => loops'[j].pc \in {"top", "exit"}
             /\ loops[j].pc = "exit" => loops'[j] = loops[j]]_vars
  /\ sup.stopped ~>
       (/\ \A j \in Jobs : loops[j].pc \in {"exit", "dead"}
        /\ sup.start \in {"returned", "raised"})

\* stop() was called while a loop was in its iteration and another asleep;
\* both have returned and so has start()
C29_Witness ==
  /\ sup.stopped /\ sup.start = "returned"
  /\ \A j \in Jobs : loops[j].pc = "exit" /\ loops[j].n > 0

\* the marks of a token that are still in their window
InWindow(token) ==
  {m \in net.marks : m[1] = token /\ net.now < m[2] + RATE_LIMIT_BACKOFF}

\* C30: a request attempted with a token for which a response with
\* MAX_HOURLY_CALLS_EXCEEDED came less than 600 seconds ago returns None and
\* sends no POST, whoever attempts it; a request attempted with a token that
\* has no such response in the last 600 seconds is sent.
C30_CooldownWindowPerToken ==
  [][\A r \in Requesters :
       (reqs[r].pc = "idle" /\ reqs'[r].pc # "idle") =>
          IF InWindow(reqs'[r].token) # {}
            THEN /\ reqs'[r].pc = "ret" /\ reqs'[r].ret = "None"
                 /\ ~ reqs'[r].issued /\ net'.posts = net.posts
            ELSE /\ reqs'[r].pc = "post" /\ reqs'[r].issued
                 /\ net'.posts = net.posts + 1]_vars

\* a request was skipped inside the window, and a request with the same token
\* is in flight now that the window is over
C30_Witness ==
  /\ net.skipped > 0
  /\ \E r \in Requesters :
       /\ reqs[r].pc = "post"
       /\ \E m \in net.marks : m[1] = reqs[r].token
       /\ InWindow(reqs[r].token) = {}

---------------------------------------------------------------------------
(* HFWatcher: the bounds of the seen-sets *)

\* the seen-sets of the job are within the caps of its kind
WithinCaps ==
  /\ w.kind = "thread" => Cardinality(w.seen_pids) <= ThreadCap
  /\ w.kind = "forum" => Cardinality(w.seen_tids) <= ForumCap
  /\ w.kind = "keyword" =>
       Cardinality(w.seen_tids) <= KeywordCap /\ Cardinality(w.seen_pids) <= KeywordCap

\* the set was over its cap and has been cut to the size kept
Cut(seen, after, cap, keep) == Cardinality(seen) > cap => Cardinality(after) = keep

\* C31: when a poll iteration of a thread, forum or keyword watch has returned,
\* its seen-sets are within their caps, and the step that ends an iteration
\* which had a set over its cap has cut that set to the size kept.
C31_SeenSetsWithinCapsAfterEachPoll ==
  /\ [](poll.pc = "done" => WithinCaps)
  /\ [][(poll.pc # "done" /\ poll'.pc = "done") =>
          /\ w.kind = "thread" => Cut(w.seen_pids, w'.seen_pids, ThreadCap, ThreadKeep)
          /\ w.kind = "forum" => Cut(w.seen_tids, w'.seen_tids, ForumCap, ForumKeep)
          /\ w.kind = "keyword" =>
               /\ Cut(w.seen_tids, w'.seen_tids, KeywordCap, KeywordKeep)
               /\ Cut(w.seen_pids, w'.seen_pids, KeywordCap, KeywordKeep)]_vars

\* C32: the trim keeps the most recently added identifiers: of a thread or
\* forum watch it drops no identifier added in this iteration while it keeps
\* one that was in the set when the iteration began.
C32_TrimKeepsMostRecent ==
  [][(w.kind \in {"thread", "forum"} /\ poll.pc = "emit" /\ poll'.pc = "done") =>
       LET old     == IF w.kind = "thread" THEN w.seen_pids ELSE w.seen_tids
           kept    == IF w.kind = "thread" THEN w'.seen_pids ELSE w'.seen_tids
           dropped == old \ kept
       IN \A d \in dropped, k \in kept : ~ (d \notin poll.seen0 /\ k \in poll.seen0)]_vars

\* C33: the set of seen transaction ids of a bytes watch never holds more
\* than a fixed number of ids, however many distinct ids the polls return.
C33_BytesSeenIdsBounded ==
  w.kind = "bytes" => Cardinality(w.seen_ids) <= BytesCap

---------------------------------------------------------------------------
(* HFWatcher: callbacks that raise, and fetches without data *)

\* the seen-set of the job that identifiers of this kind of event are kept in
SeenSetOf(job, event) ==
  IF event \in {"new_thread", "user_thread", "keyword_subject"} THEN job.seen_tids
  ELSE IF event = "bytes_received" THEN job.seen_ids
  ELSE job.seen_pids

\* the identifier is in its seen-set once the callback has been called, and
\* the callback that raised before was not called for it
AddedAndNotFailed(event, id) ==
  /\ id \in SeenSetOf(w', event)
  /\ <<event, id>> \notin wlog.failed

\* C34: when the callback is called for an identifier, the identifier is in
\* the job's seen-set already, also when the callback raises, and no callback
\* is called for an identifier whose callback raised in an earlier poll.
C34_CallbackFailureCausesNoDuplicate ==
  [][IF w.kind = "keyword"
       THEN (poll.pc \in {"scan", "kposts"} /\ poll'.pc # "sleep" /\ poll'.dec.emitted) =>
              AddedAndNotFailed(IF poll'.dec.kind = "thread" THEN "keyword_subject"
                                                             ELSE "keyword_post",
                                poll'.dec.id)
       ELSE Len(poll'.ev) = Len(poll.ev) + 1 =>
              LET e == poll'.ev[Len(poll'.ev)]
              IN (w.kind = "thread" /\ e.id = NoPid) \/ AddedAndNotFailed(e.event, e.id)]_vars

---------------------------------------------------------------------------
(* HFWatcher._poll_thread: the baseline *)

\* the metadata fetch of a thread watch has just come back with the thread
ThreadObserved == w.kind = "thread" /\ poll.pc = "sleep" /\ poll'.first = "data"

\* C35: the first observation of the thread records its lastpost as the
\* baseline and emits nothing; a later poll whose lastpost is not past the
\* baseline ends without a posts fetch and without an event, and leaves the
\* baseline and the seen-set as they were.
C35_BaselineThenNothingUntilAdvance ==
  [][ThreadObserved =>
       /\ w.last_post = 0 =>
            /\ w'.last_post = poll'.lastpost /\ w'.seen_pids = w.seen_pids
            /\ poll'.pc = "done" /\ poll'.ev = <<>>
       /\ (w.last_post # 0 /\ poll'.lastpost <= w.last_post) =>
            /\ w' = w
            /\ poll'.pc = "done" /\ poll'.ev = <<>>]_vars

\* a poll after replies were emitted saw the lastpost of the baseline again
C35_Witness ==
  /\ w.kind = "thread" /\ poll.pc = "done" /\ poll.first = "data"
  /\ w.last_post > 0 /\ poll.lastpost = w.last_post /\ poll.base0 = w.last_post
  /\ w.seen_pids # {} /\ poll.seen0 = w.seen_pids
  /\ wn.restarts = 0

\* C40: the baseline of a thread watch never decreases from one poll to the
\* next, whatever lastpost the polls return.
C40_BaselineIsHighWaterMark ==
  [][(w.kind = "thread" /\ wn'.restarts = wn.restarts) => w'.last_post >= w.last_post]_vars

\* the baseline was set by the first observation and raised twice: by a posts
\* fetch without data, and at the end of a pass over the replies
C40_Witness ==
  /\ w.kind = "thread" /\ poll.pc = "done" /\ poll.got /\ poll.rows = <<>>
  /\ poll.base0 > 0 /\ w.last_post > poll.base0
  /\ <<"thread_reply", NoPid>> \in wlog.once
  /\ wn.restarts = 0

---------------------------------------------------------------------------
(* HFWatcher: an iteration whose first fetch returns no data *)

\* the iteration is one whose first fetch returned no data
FirstFetchFailed == poll'.first = "nodata" /\ poll'.pc # "sleep"

\* the step has called no callback
NothingEmitted ==
  IF w.kind = "keyword" THEN ~ poll'.dec.emitted ELSE poll'.ev = <<>>

---------------------------------------------------------------------------
(* HFEventStore: a stored record does not change *)

\* the rows of `after` keep the seen_at that `before` has for their key
SameSeenAt(before, after) ==
  \A r \in before, q \in after : PK(r) = PK(q) => q.seen_at = r.seen_at

\* a row of `before` has no row of its key in `after`
Removed(before, after) == {r \in before : \A q \in after : PK(q) # PK(r)}

\* a call of prune, purge_old or clear is at this point
Deleting(pc) == \E t \in AllThreads : thr[t].pc = pc /\ thr[t].op \in {"prune", "purge_old", "clear"}

\* C37: no step changes the seen_at of a record, in the connection or in the
\* file: add, add_if_new and add_many on an id that is present leave it as it
\* is; and a record leaves the file only with the commit of a prune, purge_old
\* or clear, and the connection only with their DELETE, or, not yet committed,
\* with the process.
C37_RecordsImmutableUntilDeleted ==
  [][/\ SameSeenAt(conn, conn') /\ SameSeenAt(db, db')
     /\ Removed(db, db') # {} => Deleting("commit")
     /\ Removed(conn, conn') # {} =>
          \/ Deleting("exec")
          \/ (conn' = InitSchema(db) /\ Removed(conn, conn') \cap db = {})]_vars

\* add has run, a day or more after the id was stored, and the record has the
\* seen_at it had
C37_Witness ==
  \E t \in AllThreads :
    /\ thr[t].op = "add" /\ thr[t].pc = "commit"
    /\ \E r \in conn :
         /\ PK(r) = <<thr[t].ns.s, Str(thr[t].key), Str(thr[t].eid)>>
         /\ r.seen_at < clock /\ r \in db

---------------------------------------------------------------------------
(* HFWatcher loops: what reaches start() *)

\* C38: no exception of a job's loop, one raised by the on_error sink
\* included, ends the task of that loop or is raised by start().
C38_NoExceptionEscapesALoop ==
  /\ sup.start # "raised"
  /\ \A j \in Jobs : loops[j].pc # "dead"

---------------------------------------------------------------------------
(* HFCache: the size of the store *)

\* C39: in a cache constructed with maxsize > 0 the store never holds more
\* than maxsize entries, whatever calls of set, get, get_or_fetch, delete,
\* invalidate, clear and purge_expired have been made.
C39_StoreNeverExceedsMaxsize ==
  cache.maxsize > 0 =>
    /\ Len(cache.store) <= cache.maxsize
    /\ Cardinality(KeysOf(cache.store)) = Len(cache.store)

\* the third call, a set, has returned and left a cache of maxsize 2 full,
\* with the key it stored as the last of the two
C39_Witness ==
  /\ cache.maxsize = 2 /\ Len(cache.store) = 2 /\ cops = 3
  /\ cthr[1].pc = "ret" /\ cthr[1].op = "set"
  /\ cache.store[2].k = CacheKey(cthr[1].ns, cthr[1].key)
  /\ cache.hits = 0 /\ cache.misses = 0

====
